---- MODULE Spec2Model ----
(***************************************************************************)
(* Generation orchestration of the asset generator: the batch job runner   *)
(* of GeneratorPanel.tsx (handleBatchFileUpload), the three engine calls   *)
(* of geminiService.ts (generateImageAsset, generateWithPublicModel with   *)
(* its retry loop, generateWithOpenAICompatibleModel), the placeholder     *)
(* synthesizer and the batchProgress state of AppProvider.                 *)
(*                                                                         *)
(* One action is one run-to-suspension piece of a handler: from the event  *)
(* or the settled promise that resumes it up to its next await.            *)
(***************************************************************************)
EXTENDS Integers, Sequences, FiniteSets, TLC

\* ------------------------------------------------------------------ bounds

\* Largest number of records the parser hands over in one job.
MaxRows == 2

\* Largest absolute width and height handed to getClosestAspectRatio.
MaxDim == 14

\* Longest prompt, in UTF-16 code units, handed to stringToSeed.
MaxPromptLen == 5

\* How often the seed of one prompt is derived.
MaxDerivations == 2

\* --------------------------------------------------------- program constants

MAX_RETRIES == 3

INTER_ITEM_DELAY == 2000

DEFAULT_PLACEHOLDER_SIZE == 64
\* useState(64) of the panel's width and height
DEFAULT_WIDTH == 64
DEFAULT_HEIGHT == 64
\* Math.min(4, ...) of the variation clamps
MAX_VARIATIONS == 4
\* A single-shot run starts only while fewer images than this are available.
MaxImages == 2

\* Most handleUserUpload calls whose files are being read at a time.
MaxUploads == 1

\* JavaScript's undefined, for the optional text fields.
Undefined == "undefined"

Engines == {"gemini", "dalle3", "deepseek", "public"}

\* The credential the settings panel holds for an engine: unset or set.
ApiKeys == {"", "sk-key"}

\* The master style text of the panel when the job is started.
MasterStyles == {"", "retro-futurism, pixel art, vibrant colors"}

\* ------------------------------------------------------- JavaScript numbers

NaN == [isNaN |-> TRUE, n |-> 0]

Num(k) == [isNaN |-> FALSE, n |-> k]

\* A number's truthiness: NaN and 0 are falsy.
Truthy(x) == ~x.isNaN /\ x.n # 0

DigitChars == <<"0", "1", "2", "3", "4", "5", "6", "7", "8", "9">>

IsDigit(c) == \E d \in 1..10 : DigitChars[d] = c

DigitVal(c) == (CHOOSE d \in 1..10 : DigitChars[d] = c) - 1

RECURSIVE SkipSpaces(_)
SkipSpaces(s) ==
    IF s # <<>> /\ Head(s) = " " THEN SkipSpaces(Tail(s)) ELSE s

RECURSIVE LeadingDigits(_)
LeadingDigits(s) ==
    IF s # <<>> /\ IsDigit(Head(s)) THEN 1 + LeadingDigits(Tail(s)) ELSE 0

RECURSIVE DigitsValue(_)
DigitsValue(s) ==
    IF s = <<>> THEN 0
    ELSE 10 * DigitsValue(SubSeq(s, 1, Len(s) - 1)) + DigitVal(s[Len(s)])

\* parseInt(cell, 10) on a cell given as its sequence of characters: leading
\* blanks are skipped (the rest t is taken once), one sign is read, then the
\* longest run of digits; no digit at all gives NaN.
ParseInt(cell) ==
    CHOOSE v \in
      { LET signed == t # <<>> /\ Head(t) \in {"+", "-"}
            u == IF signed THEN Tail(t) ELSE t
            k == LeadingDigits(u)
        IN  IF k = 0 THEN NaN
            ELSE IF signed /\ Head(t) = "-"
            THEN Num(0 - DigitsValue(SubSeq(u, 1, k)))
            ELSE Num(DigitsValue(SubSeq(u, 1, k))) : t \in {SkipSpaces(cell)} } : TRUE

\* a || b on text cells and on strings: the first operand unless it is empty.
OrCell(a, b) == IF a # <<>> THEN a ELSE b

OrStr(a, b) == IF a # "" THEN a ELSE b

\* ------------------------------------------------------------------- rows

\* One parsed record after transformHeader; an absent column and an empty
\* cell are both the empty text.  Width and height cells are kept as
\* character sequences because parseInt reads them character by character.
Row(nf, fn, lebar, w, tinggi, h, ps, p, tipe, bagian, arah) ==
    [nama_file |-> nf, filename |-> fn, lebar |-> lebar, width |-> w,
     tinggi |-> tinggi, height |-> h, prompt_spesifik |-> ps, prompt |-> p,
     tipe_aset |-> tipe, bagian_karakter |-> bagian, arah_hadap |-> arah,
     specific_prompt |-> "", asset_type |-> "", character_part |-> "",
     facing_direction |-> ""]

\* The same record with its English-named columns filled in.
English(row, ps, tipe, bagian, arah) ==
    [row EXCEPT !.specific_prompt = ps, !.asset_type = tipe,
                !.character_part = bagian, !.facing_direction = arah]

BlankRow == Row("", "", <<>>, <<>>, <<>>, <<>>, "", "", "", "", "")

SampleRows ==
    { English(Row("", "hero", <<>>, <<"6", "4">>, <<>>, <<"6", "4">>, "", "a stoic hero", "", "", ""),
              "", "Character", "Head", "right"),
      English(Row("", "villain", <<>>, <<"0">>, <<>>, <<"6", "4">>, "", "", "", "", ""),
              "a villain", "", "", ""),
      Row("", "", <<"3", "2">>, <<>>, <<"4", "8">>, <<>>, "a tree", "", "Prop", "", "kiri"),
      Row("hero", "", <<>>, <<"-", "5">>, <<>>, <<"a", "b">>, "", "", "", "Kepala", "") }

RawRows == SampleRows \cup {BlankRow}

\* Object.values(row).some(val => val !== null && val !== '')
HasValue(row) ==
    \/ row.nama_file # "" \/ row.filename # ""
    \/ row.lebar # <<>> \/ row.width # <<>>
    \/ row.tinggi # <<>> \/ row.height # <<>>
    \/ row.prompt_spesifik # "" \/ row.prompt # ""
    \/ row.tipe_aset # "" \/ row.bagian_karakter # "" \/ row.arah_hadap # ""
    \/ row.specific_prompt # "" \/ row.asset_type # ""
    \/ row.character_part # "" \/ row.facing_direction # ""

\* Fault: the filter that drops the rows without any value is left out.
KeepAllRows(data) == data

RECURSIVE FilterRows(_)
FilterRows(data) ==
    IF data = <<>> THEN <<>>
    ELSE IF HasValue(Head(data)) THEN <<Head(data)>> \o FilterRows(Tail(data))
    ELSE FilterRows(Tail(data))

RECURSIVE SeqsUpTo(_, _)
SeqsUpTo(S, k) ==
    IF k = 0 THEN {<<>>}
    ELSE LET shorter == SeqsUpTo(S, k - 1)
         IN  shorter \cup {Append(s, x) : s \in shorter, x \in S}

\* results.data of a parse without errors.
ParsedData == SeqsUpTo(RawRows, MaxRows)

\* Row i (0-based, as in the loop) of a row list.
RowAt(rs, idx) == rs[idx + 1]

\* ----------------------------------------------------------- row derivations

\* Fault: the positional fallback counts rows from 1.
FileNameAsIndexed(row, idx) ==
    OrStr(row.nama_file, OrStr(row.filename, "asset_" \o ToString(idx + 1))) \o ".png"

FileName(row, idx) ==
    OrStr(row.nama_file, OrStr(row.filename, "asset_" \o ToString(idx))) \o ".png"

WidthStr(row) == OrCell(row.lebar, row.width)

HeightStr(row) == OrCell(row.tinggi, row.height)

AssetTypeOf(row) == OrStr(row.tipe_aset, row.asset_type)

CharacterPartOf(row) == OrStr(row.bagian_karakter, row.character_part)

SpecificPrompt(row) ==
    OrStr(row.prompt_spesifik, OrStr(row.specific_prompt, row.prompt))

FacingDirectionOf(row) == OrStr(row.arah_hadap, row.facing_direction)

\* Fault: the validation does not check that the dimensions are positive.
SkipsPositiveCheck(row) ==
    LET width == ParseInt(WidthStr(row))
        height == ParseInt(HeightStr(row))
    IN  ~ ( \/ SpecificPrompt(row) = ""
            \/ WidthStr(row) = <<>>
            \/ HeightStr(row) = <<>>
            \/ width.isNaN \/ height.isNaN )

RowIsValid(row) ==
    LET width == ParseInt(WidthStr(row))
        height == ParseInt(HeightStr(row))
    IN  ~ ( \/ SpecificPrompt(row) = ""
            \/ WidthStr(row) = <<>>
            \/ HeightStr(row) = <<>>
            \/ width.isNaN \/ height.isNaN
            \/ width.n <= 0 \/ height.n <= 0 )

ValidationMessage(idx) ==
    "Row " \o ToString(idx + 2)
        \o ": Invalid or missing data. Ensure prompt, width, and height are valid."

\* Array.prototype.join(', ') from index k on.
RECURSIVE Join(_, _)
Join(kept, k) ==
    IF k > Len(kept) THEN ""
    ELSE IF k = Len(kept) THEN kept[k]
    ELSE kept[k] \o ", " \o Join(kept, k + 1)

\* Fault: the empty elements are joined like the others.
JoinAll(parts) == Join(parts, 1)

\* parts.filter(Boolean).join(', '): the filtered array is built once.
JoinTruthy(parts) ==
    CHOOSE joined \in { Join(kept, 1) :
                          kept \in {SelectSeq(parts, LAMBDA s : s # "")} } : TRUE

\* promptParts.filter(Boolean).join(', ') of a valid row.
ComposePrompt(style, row) ==
    LET width == ParseInt(WidthStr(row))
        height == ParseInt(HeightStr(row))
    IN  JoinTruthy(<< style, AssetTypeOf(row), CharacterPartOf(row),
                      SpecificPrompt(row),
                      ToString(width.n) \o "x" \o ToString(height.n) \o "px",
                      IF FacingDirectionOf(row) # ""
                      THEN "facing " \o FacingDirectionOf(row) ELSE "",
                      "transparent background", "centered" >>)

\* The prompt variable of the loop body: still '' when validation threw.
RowPrompt(style, row) == IF RowIsValid(row) THEN ComposePrompt(style, row) ELSE ""

\* x || y || 64 on numbers.
OrNum(x, y, z) == IF Truthy(x) THEN x.n ELSE IF Truthy(y) THEN y.n ELSE z

PlaceholderWidth(row) ==
    OrNum(ParseInt(WidthStr(row)), ParseInt(WidthStr(row)), DEFAULT_PLACEHOLDER_SIZE)

PlaceholderHeight(row) ==
    OrNum(ParseInt(HeightStr(row)), ParseInt(HeightStr(row)), DEFAULT_PLACEHOLDER_SIZE)

\* ------------------------------------------------------------- image data

\* A data URL, kept as what it depicts.
Image(p, w, h) == [kind |-> "image", prompt |-> p, width |-> w, height |-> h]

\* generatePlaceholder: never fails, sized width x height.
GeneratePlaceholder(p, w, h) ==
    [kind |-> "placeholder", prompt |-> p, width |-> w, height |-> h]

\* The value of a promise that has none (yet).
NoData == [kind |-> "none", prompt |-> "", width |-> 0, height |-> 0]

\* ------------------------------------------------------------ engine calls

\* The promise of one generation call, with the position of the function
\* that will settle it.  st: "none", "pending" (one request in flight, no
\* retry loop), "fetching" and "backoff" (the retry loop of the public
\* model), "fulfilled", "rejected".  requests, sleeps, notified and log
\* record what the call did: requests sent, backoff delays slept, onRetry
\* invocations and the outcome of each attempt.
NewCall(e, p, w, h, observed) ==
    [engine |-> e, prompt |-> p, width |-> w, height |-> h, observed |-> observed,
     st |-> "none", attempt |-> 0, lastError |-> Undefined,
     value |-> NoData, reason |-> Undefined,
     requests |-> 0, sleeps |-> <<>>, notified |-> <<>>, log |-> <<>>]

NoCall == NewCall("none", "", 0, 0, FALSE)

Fulfil(c, v) == [c EXCEPT !.st = "fulfilled", !.value = v]

Reject(c, msg) == [c EXCEPT !.st = "rejected", !.reason = msg]

\* An already resolved promise, as generatePlaceholder returns.
Resolved(v) == Fulfil(NoCall, v)

\* What one fetch of the public endpoint can come to: a response with a
\* status, the blob's type and whether FileReader could read it, or a
\* transport error (status 0).
Resp(status, blobType, read) == [status |-> status, blobType |-> blobType, read |-> read]

NetworkError == Resp(0, "", "")

PublicOutcomes ==
    { Resp(200, "image/jpeg", "ok"), Resp(200, "image/jpeg", "error"),
      Resp(200, "text/html", ""), Resp(500, "", ""), Resp(429, "", ""),
      Resp(400, "", ""), Resp(404, "", ""), Resp(300, "", ""), NetworkError }

ResponseOk(r) == r.status >= 200 /\ r.status <= 299

IsImageType(t) == t \in {"image/jpeg", "image/png"}

\* Fault: every 4xx status is retried.
BreaksOnlyBelow400(status) == status < 400 /\ status # 429

\* response.status < 500 && response.status !== 429: the loop breaks.
BreaksLoop(status) == status < 500 /\ status # 429

\* Fault: the backoff grows linearly.
LinearDelay(attempt) == attempt * 1000

\* Math.pow(2, attempt) * 1000
BackoffDelay(attempt) == (2 ^ attempt) * 1000

StatusMessage(status) ==
    "Public model API failed with status: " \o ToString(status) \o "."

NonImageMessage(t) ==
    "Public model returned non-image content (type: " \o t \o ")."

\* Fault: the observer is told the number of the attempt to come.
NotifiesNextAttempt(c) ==
    IF c.attempt < MAX_RETRIES
    THEN [c EXCEPT !.st = "backoff",
                   !.sleeps = Append(@, BackoffDelay(c.attempt)),
                   !.notified = IF c.observed
                                THEN Append(@, <<c.attempt + 1, BackoffDelay(c.attempt)>>)
                                ELSE @]
    ELSE Fulfil(c, GeneratePlaceholder(c.prompt, c.width, c.height))

\* The tail of an attempt that did not return: sleep before the next attempt
\* (telling the observer first), or leave the loop after the last attempt and
\* return the placeholder.
RetryOrGiveUp(c) ==
    IF c.attempt < MAX_RETRIES
    THEN [c EXCEPT !.st = "backoff",
                   !.sleeps = Append(@, BackoffDelay(c.attempt)),
                   !.notified = IF c.observed
                                THEN Append(@, <<c.attempt, BackoffDelay(c.attempt)>>)
                                ELSE @]
    ELSE Fulfil(c, GeneratePlaceholder(c.prompt, c.width, c.height))

\* Fault: a 2xx response that is not an image ends the loop.
NonImageEndsLoop(c, r) ==
    LET d == [c EXCEPT !.log = Append(@, r)]
    IN  IF r = NetworkError
        THEN RetryOrGiveUp([d EXCEPT !.lastError = "Failed to fetch"])
        ELSE IF ResponseOk(r)
        THEN IF IsImageType(r.blobType)
             THEN IF r.read = "ok"
                  THEN Fulfil(d, Image(d.prompt, d.width, d.height))
                  ELSE Reject(d, "Error reading image blob.")
             ELSE Fulfil([d EXCEPT !.lastError = NonImageMessage(r.blobType)],
                         GeneratePlaceholder(d.prompt, d.width, d.height))
        ELSE LET e == [d EXCEPT !.lastError = StatusMessage(r.status)]
             IN  IF BreaksLoop(r.status)
                 THEN Fulfil(e, GeneratePlaceholder(e.prompt, e.width, e.height))
                 ELSE RetryOrGiveUp(e)

\* generateWithPublicModel from the moment the fetch of the current attempt
\* settles with r up to the next suspension or the return.
PublicAfterAttempt(c, r) ==
    LET d == [c EXCEPT !.log = Append(@, r)]
    IN  IF r = NetworkError
        THEN RetryOrGiveUp([d EXCEPT !.lastError = "Failed to fetch"])
        ELSE IF ResponseOk(r)
        THEN IF IsImageType(r.blobType)
             THEN IF r.read = "ok"
                  THEN Fulfil(d, Image(d.prompt, d.width, d.height))
                  ELSE Reject(d, "Error reading image blob.")
             ELSE RetryOrGiveUp([d EXCEPT !.lastError = NonImageMessage(r.blobType)])
        ELSE LET e == [d EXCEPT !.lastError = StatusMessage(r.status)]
             IN  IF BreaksLoop(r.status)
                 THEN Fulfil(e, GeneratePlaceholder(e.prompt, e.width, e.height))
                 ELSE RetryOrGiveUp(e)

\* The backoff timer fires: the loop's next attempt issues its fetch.
PublicNextAttempt(c) ==
    [c EXCEPT !.st = "fetching", !.attempt = @ + 1, !.requests = @ + 1]

GeminiOutcomes == {"image", "noimage", "err429", "err429limit0", "errkey", "errother"}

GeminiNotConfigured ==
    "Gemini API key is not configured. Please set it in the settings panel."

GeminiUnexpected ==
    "Failed to generate image. The API returned an unexpected error."

\* Fault: a quota failure makes generateImageAsset ask again.
GeminiRetriesQuota(c, o) ==
    IF o = "err429" /\ c.attempt < MAX_RETRIES
    THEN [c EXCEPT !.attempt = @ + 1, !.requests = @ + 1]
    ELSE IF o = "image"
    THEN Fulfil(c, Image(c.prompt, c.width, c.height))
    ELSE Reject(c, GeminiUnexpected)

\* generateImageAsset once generateImages has settled.
GeminiAfterRequest(c, o) ==
    CASE o = "image" -> Fulfil(c, Image(c.prompt, c.width, c.height))
      [] o = "err429limit0" ->
            Reject(c, "API Key Error (429): Your quota is 0 requests/minute. Please verify your Google AI Studio project has billing enabled and the API is active.")
      [] o = "err429" ->
            Reject(c, "Rate limit exceeded (429). You may have exceeded your quota. Please check your plan/billing and try again later.")
      [] o = "errkey" ->
            Reject(c, "Invalid Gemini API key. Please check your key in the settings.")
      [] OTHER -> Reject(c, GeminiUnexpected)

OpenAIOutcomes == {"image", "nodata", "s401", "s429", "s429billing", "s500", "neterr"}

\* The model name the panel passes for the engine.
ModelName(e) == IF e = "dalle3" THEN "dall-e-3" ELSE "deepseek-image-v1"

OpenAIFailed(model, msg) == model \o " generation failed: " \o msg

\* generateWithOpenAICompatibleModel once its fetch has settled.
OpenAIAfterRequest(c, o) ==
    CASE o = "image" -> Fulfil(c, Image(c.prompt, 1024, 1024))
      [] o = "nodata" ->
            Reject(c, OpenAIFailed(ModelName(c.engine), "No image data received from " \o ModelName(c.engine) \o "."))
      [] o = "s401" ->
            Reject(c, OpenAIFailed(ModelName(c.engine), "Invalid API key (401). Please check your key."))
      [] o = "s429billing" ->
            Reject(c, OpenAIFailed(ModelName(c.engine), "Billing issue (429): Please check your credit balance or plan."))
      [] o = "s429" ->
            Reject(c, OpenAIFailed(ModelName(c.engine), "Rate limit exceeded for " \o ModelName(c.engine) \o " API (429). Please try again later."))
      [] o = "s500" ->
            Reject(c, OpenAIFailed(ModelName(c.engine), "API failed with status: 500"))
      [] OTHER -> Reject(c, OpenAIFailed(ModelName(c.engine), "Failed to fetch"))

\* Fault: the engine functions send the request whatever the credential.
StartCallUnchecked(e, key, p, w, h, observed) ==
    LET c == NewCall(e, p, w, h, observed)
    IN  IF e = "public"
        THEN [c EXCEPT !.st = "fetching", !.attempt = 1, !.requests = 1]
        ELSE [c EXCEPT !.st = "pending", !.attempt = 1, !.requests = 1]

\* generateFunc(prompt, width, height) of the batch runner up to the first
\* suspension of the engine function it selects.
StartCall(e, key, p, w, h, observed) ==
    LET c == NewCall(e, p, w, h, observed)
    IN  CASE e = "public" ->
              [c EXCEPT !.st = "fetching", !.attempt = 1, !.requests = 1]
          [] e = "gemini" ->
              IF key = "" THEN Reject(c, GeminiNotConfigured)
              ELSE [c EXCEPT !.st = "pending", !.attempt = 1, !.requests = 1]
          [] OTHER ->
              IF key = ""
              THEN Reject(c, OpenAIFailed(ModelName(e), "OpenAI API key is not configured. Please set it in the settings panel."))
              ELSE [c EXCEPT !.st = "pending", !.attempt = 1, !.requests = 1]

\* --------------------------------------------------- binary64 arithmetic

\* The numbers of getClosestAspectRatio are IEEE 754 doubles.  A finite
\* non-negative double is kept as m * 2^x, m a natural number written in
\* binary, least significant bit first and without leading zeros; a result
\* that needs more than MANTISSA_BITS bits is rounded to nearest, ties to
\* even.  The quotients and differences of small integers stay far away from
\* the subnormal and the overflow range.
MANTISSA_BITS == 53

\* The long division yields its quotient CHUNK_BITS bits at a time.
CHUNK_BITS == 13

Zeros(n) == [k \in 1..n |-> 0]

Bit(b, k) == IF k <= Len(b) THEN b[k] ELSE 0

\* b without its leading zeros.
TrimBits(b) ==
    IF \A k \in 1..Len(b) : b[k] = 0 THEN <<>>
    ELSE SubSeq(b, 1, CHOOSE k \in 1..Len(b) :
                          b[k] = 1 /\ \A j \in (k + 1)..Len(b) : b[j] = 0)

\* a + b + carry.  The carry into position k was generated at a position
\* below k (position 0 stands for the carry handed in) and passed on by
\* every position in between.
AddBits(a, b, carry) ==
    LET generated(j) == IF j = 0 THEN carry = 1 ELSE Bit(a, j) + Bit(b, j) = 2
        passing(j) == Bit(a, j) + Bit(b, j) >= 1
        into(k) == \E j \in 0..(k - 1) :
                      generated(j) /\ \A l \in (j + 1)..(k - 1) : passing(l)
    IN  TrimBits([k \in 1..((IF Len(a) > Len(b) THEN Len(a) ELSE Len(b)) + 1) |->
                     (Bit(a, k) + Bit(b, k) + (IF into(k) THEN 1 ELSE 0)) % 2])

\* a - b for a >= b, with the borrows found like the carries of a sum.
SubBits(a, b) ==
    LET borrowed(k) == \E j \in 1..(k - 1) :
                          /\ Bit(a, j) < Bit(b, j)
                          /\ \A l \in (j + 1)..(k - 1) : Bit(a, l) <= Bit(b, l)
    IN  TrimBits([k \in 1..Len(a) |->
                     (Bit(a, k) + Bit(b, k) + (IF borrowed(k) THEN 1 ELSE 0)) % 2])

\* a < b on numbers without leading zeros.
LessBits(a, b) ==
    \/ Len(a) < Len(b)
    \/ /\ Len(a) = Len(b)
       /\ \E k \in 1..Len(a) :
             /\ a[k] < b[k]
             /\ \A j \in (k + 1)..Len(a) : a[j] = b[j]

\* Round to nearest, ties to even, at MANTISSA_BITS significant bits.
RoundBits(b, x) ==
    LET d == Len(b) - MANTISSA_BITS
    IN  IF d <= 0 THEN [m |-> b, x |-> x]
        ELSE LET kept == SubSeq(b, d + 1, Len(b))
                 up == /\ b[d] = 1
                       /\ \/ \E k \in 1..(d - 1) : b[k] = 1
                          \/ kept[1] = 1
             IN  [m |-> IF up THEN AddBits(kept, <<>>, 1) ELSE kept, x |-> x + d]

\* The bits of a at the scale of the smaller exponent of a and b.
AlignedBits(a, b) ==
    TrimBits(Zeros(IF a.x > b.x THEN a.x - b.x ELSE 0) \o a.m)

MinExponent(a, b) == IF a.x < b.x THEN a.x ELSE b.x

FltLess(a, b) == LessBits(AlignedBits(a, b), AlignedBits(b, a))

FltAdd(a, b) ==
    RoundBits(AddBits(AlignedBits(a, b), AlignedBits(b, a), 0), MinExponent(a, b))

\* Math.abs(a - b)
FltAbsDiff(a, b) ==
    IF FltLess(a, b)
    THEN RoundBits(SubBits(AlignedBits(b, a), AlignedBits(a, b)), MinExponent(a, b))
    ELSE RoundBits(SubBits(AlignedBits(a, b), AlignedBits(b, a)), MinExponent(a, b))

\* p / q as p' / q' * 2^e with q' <= p' < 2 q'.
RECURSIVE Normalised(_, _, _)
Normalised(p, q, e) ==
    IF p < q THEN Normalised(2 * p, q, e - 1)
    ELSE IF p >= 2 * q THEN Normalised(p, 2 * q, e + 1)
    ELSE [p |-> p, q |-> q, e |-> e]

\* The CHUNK_BITS bits of v < 2^CHUNK_BITS.
ChunkBits(v) == [k \in 1..CHUNK_BITS |-> (v \div (2 ^ (k - 1))) % 2]

\* n more chunks of quotient bits of a long division with remainder r < q.
RECURSIVE QuotientBits(_, _, _, _)
QuotientBits(r, q, n, acc) ==
    IF n = 0 THEN [m |-> acc, r |-> r]
    ELSE QuotientBits((r * (2 ^ CHUNK_BITS)) % q, q, n - 1,
                      ChunkBits((r * (2 ^ CHUNK_BITS)) \div q) \o acc)

\* a / b on natural numbers a and b > 0, correctly rounded.
FltDiv(a, b) ==
    IF a = 0 THEN [m |-> <<>>, x |-> 0]
    ELSE LET n == Normalised(a, b, 0)
             d == QuotientBits(n.p - n.q, n.q, (MANTISSA_BITS - 1) \div CHUNK_BITS, <<1>>)
             up == \/ 2 * d.r > n.q
                   \/ (2 * d.r = n.q /\ d.m[1] = 1)
         IN  [m |-> IF up THEN AddBits(d.m, <<>>, 1) ELSE d.m,
              x |-> n.e - (MANTISSA_BITS - 1)]

Abs(n) == IF n < 0 THEN -n ELSE n

\* width / height for height # 0: the sign and the magnitude of the quotient.
Quotient(width, height) ==
    [neg |-> width # 0 /\ ((width < 0) # (height < 0)),
     mag |-> FltDiv(Abs(width), Abs(height))]

\* ------------------------------------------------------ aspect ratios

\* Object.keys(SUPPORTED_ASPECT_RATIOS) with the values, in insertion order.
SUPPORTED_ASPECT_RATIOS ==
    << [key |-> "1:1", value |-> FltDiv(1, 1)],
       [key |-> "4:3", value |-> FltDiv(4, 3)],
       [key |-> "3:4", value |-> FltDiv(3, 4)],
       [key |-> "16:9", value |-> FltDiv(16, 9)],
       [key |-> "9:16", value |-> FltDiv(9, 16)] >>

\* Math.abs(SUPPORTED_ASPECT_RATIOS[key] - targetRatio)
RatioDiff(value, targetRatio) ==
    IF targetRatio.neg THEN FltAdd(value, targetRatio.mag)
    ELSE FltAbsDiff(value, targetRatio.mag)

\* reduce((prev, curr) => currDiff < prevDiff ? curr : prev) from index k on.
RECURSIVE ReduceClosest(_, _, _)
ReduceClosest(prev, k, targetRatio) ==
    IF k > Len(SUPPORTED_ASPECT_RATIOS) THEN prev.key
    ELSE LET curr == SUPPORTED_ASPECT_RATIOS[k]
         IN  IF FltLess(RatioDiff(curr.value, targetRatio),
                        RatioDiff(prev.value, targetRatio))
             THEN ReduceClosest(curr, k + 1, targetRatio)
             ELSE ReduceClosest(prev, k + 1, targetRatio)

\* Fault: the reduction never replaces its first element.
AlwaysSquare(width, height) == "1:1"

GetClosestAspectRatio(width, height) ==
    IF height = 0 THEN "1:1"
    ELSE ReduceClosest(SUPPORTED_ASPECT_RATIOS[1], 2, Quotient(width, height))

\* ----------------------------------------------------------- stringToSeed

\* A 32-bit integer is kept as its two's complement bit pattern in two
\* 16-bit halves, so that no intermediate value leaves the range of the
\* integers at hand; a JavaScript number is its sign and its magnitude in
\* the same halves.
HALF_WORD == 65536

\* hash << 5
ShiftLeft5(v) ==
    [hi |-> (v.hi * 32 + (v.lo * 32) \div HALF_WORD) % HALF_WORD,
     lo |-> (v.lo * 32) % HALF_WORD]

\* (a - b) | 0
Sub32(a, b) ==
    [hi |-> (a.hi - b.hi - (IF a.lo < b.lo THEN 1 ELSE 0) + 2 * HALF_WORD) % HALF_WORD,
     lo |-> (a.lo - b.lo + HALF_WORD) % HALF_WORD]

\* (a + char) | 0 for a UTF-16 code unit
Add32(a, char) ==
    [hi |-> (a.hi + (a.lo + char) \div HALF_WORD) % HALF_WORD,
     lo |-> (a.lo + char) % HALF_WORD]

\* The number a bit pattern stands for.
ToNumber(v) ==
    IF v.hi < HALF_WORD \div 2 THEN [neg |-> FALSE, hi |-> v.hi, lo |-> v.lo]
    ELSE IF v.lo = 0 THEN [neg |-> TRUE, hi |-> HALF_WORD - v.hi, lo |-> 0]
    ELSE [neg |-> TRUE, hi |-> HALF_WORD - v.hi - 1, lo |-> HALF_WORD - v.lo]

MathAbs(n) == [n EXCEPT !.neg = FALSE]

\* The loop of stringToSeed from character k on.  The sum
\* (hash << 5) - hash + char is exact in a double; hash |= 0 keeps its low
\* 32 bits.
RECURSIVE HashFrom(_, _, _)
HashFrom(hash, str, k) ==
    IF k > Len(str) THEN hash
    ELSE HashFrom(Add32(Sub32(ShiftLeft5(hash), hash), str[k]), str, k + 1)

\* Fault: the hash is returned with its sign.
SeedWithoutAbs(str) == ToNumber(HashFrom([hi |-> 0, lo |-> 0], str, 1))

\* stringToSeed on the UTF-16 code units of the string.
StringToSeed(str) == MathAbs(ToNumber(HashFrom([hi |-> 0, lo |-> 0], str, 1)))

\* ------------------------------------------------------------------ state

VARIABLES
    batchProgress,      \* the BatchProgress state of AppProvider
    pc,                 \* where handleBatchFileUpload is suspended
    engine,             \* the engine, credential and master style the
    apiKey,             \*   handler's closure captured when the job started
    masterStyle,
    rows,               \* the filtered rows of the job
    i,                  \* the loop index
    failures,
    firstErrorMessage,
    call,               \* the promise the loop body awaits
    genCalls,           \* generateFunc invocations of the job (history)
    delays,             \* the inter-item delays the loop has slept (history)
    generatedImages,    \* the available images of AppProvider
    isLoading,          \* single-shot state of the panel
    singleError,
    spc,                \* where handleGenerateSingle is suspended
    numberOfVariations,
    requested,          \* what was last typed into the variations input (history)
    singleEngine,       \* the engine chosen in the panel
    capturedImages,     \* generatedImages as the handler's closure holds it
    variations,         \* the promises handed to Promise.allSettled
    evaluation,         \* a helper function of geminiService.ts applied on
                        \*   its own: its arguments and what it returned
    uploads,            \* the handleUserUpload calls whose files are being read
    download            \* the archive handleDownloadZip builds and saves

batchVars == <<batchProgress, pc, engine, apiKey, masterStyle, rows, i, failures,
               firstErrorMessage, call, genCalls, delays>>

singleVars == <<generatedImages, isLoading, singleError, spc, numberOfVariations,
                requested, singleEngine, capturedImages, variations>>

panelVars == <<uploads, download>>

vars == <<batchVars, singleVars, evaluation, panelVars>>

jobLocals == <<engine, apiKey, masterStyle, rows, i, failures, firstErrorMessage,
               call, genCalls>>

\* The text of a label that is kept as its pieces, so that String.replace
\* can be applied to it.
RECURSIVE Text(_)
Text(pieces) ==
    IF pieces = <<>> THEN "" ELSE Head(pieces) \o Text(Tail(pieces))

InitialProgress ==
    [total |-> 0, current |-> 0, status |-> "idle", generatedFiles |-> <<>>,
     currentFileName |-> <<>>, error |-> Undefined]

\* Fault: a setup failure records its reason but leaves the status alone.
SetupFailureKeepsStatus(msg) ==
    [total |-> 0, current |-> 0, status |-> "processing", generatedFiles |-> <<>>,
     currentFileName |-> <<>>, error |-> msg]

\* Fault: a setup failure puts the state back to its initial value.
SetupFailureToIdle(msg) ==
    [total |-> 0, current |-> 0, status |-> "idle", generatedFiles |-> <<>>,
     currentFileName |-> <<>>, error |-> Undefined]

\* The whole-state replacement of every setup failure.
SetupFailure(msg) ==
    [total |-> 0, current |-> 0, status |-> "error", generatedFiles |-> <<>>,
     currentFileName |-> <<>>, error |-> msg]

\* No helper function is under evaluation.
NoEvaluation ==
    [fn |-> "none", width |-> 0, height |-> 0, str |-> <<>>, calls |-> 0,
     ratio |-> "", seed |-> [neg |-> FALSE, hi |-> 0, lo |-> 0]]

\* handleDownloadZip has not been called.
NoDownload == [st |-> "none", entries |-> <<>>, files |-> 0]

\* The panel and the provider after mounting.
PanelInit ==
    /\ batchProgress = InitialProgress
    /\ pc = "idle"
    /\ engine = "gemini"
    /\ apiKey = ""
    /\ masterStyle = "retro-futurism, pixel art, vibrant colors"
    /\ rows = <<>>
    /\ i = 0
    /\ failures = 0
    /\ firstErrorMessage = ""
    /\ call = NoCall
    /\ genCalls = 0
    /\ delays = <<>>
    /\ generatedImages = <<>>
    /\ isLoading = FALSE
    /\ singleError = Undefined
    /\ spc = "idle"
    /\ numberOfVariations = 1
    /\ requested = Num(1)
    /\ singleEngine = "gemini"
    /\ capturedImages = <<>>
    /\ variations = <<>>
    /\ uploads = <<>>
    /\ download = NoDownload

Init ==
    /\ PanelInit
    /\ evaluation = NoEvaluation

\* The credential generateFunc passes to the engine.
KeysOf(e) == IF e = "public" THEN {""} ELSE ApiKeys

\* Fault: the csv-upload input is never disabled.
UploadAlwaysEnabled == TRUE

\* The csv-upload input is disabled while a job is processing.
UploadEnabled == batchProgress.status # "processing"

\* Fault: the new job's state is spread over the previous job's state.
StartStateOverPrevious ==
    [batchProgress EXCEPT !.total = 0, !.status = "processing",
                          !.generatedFiles = <<>>,
                          !.currentFileName = <<"Parsing CSV...">>,
                          !.error = Undefined]

\* The state a new job starts from, whatever the state before it.
StartState ==
    [total |-> 0, current |-> 0, status |-> "processing",
     generatedFiles |-> <<>>, currentFileName |-> <<"Parsing CSV...">>,
     error |-> Undefined]

\* handleBatchFileUpload with a file chosen, up to reader.readAsText.
StartJob(e, key, style) ==
    /\ UploadEnabled
    /\ batchProgress' = StartState
    /\ pc' = "reading"
    /\ engine' = e
    /\ apiKey' = key
    /\ masterStyle' = style
    /\ rows' = <<>>
    /\ i' = 0
    /\ failures' = 0
    /\ firstErrorMessage' = ""
    /\ call' = NoCall
    /\ genCalls' = 0
    /\ delays' = <<>>
    /\ UNCHANGED <<singleVars, evaluation, panelVars>>

\* A handler that ends the job during setup.
FailSetup(msg) ==
    /\ batchProgress' = SetupFailure(msg)
    /\ pc' = "idle"
    /\ UNCHANGED jobLocals
    /\ UNCHANGED <<delays, singleVars, evaluation, panelVars>>

\* reader.onerror
ReaderOnError ==
    /\ pc = "reading"
    /\ FailSetup("Error reading the selected file.")

\* reader.onload without a result
ReaderLoadEmpty ==
    /\ pc = "reading"
    /\ FailSetup("Could not read file content.")

ParseErrorMessages == {"Too few fields: expected 4 fields but parsed 3"}

\* complete(results) with results.errors non-empty; row is firstError.row.
ParseErrors(msg, row) ==
    /\ pc = "reading"
    /\ FailSetup("CSV Parse Error: " \o msg \o " on row " \o ToString(row + 2) \o ".")

\* The error callback handed to Papa.parse.
PapaErrorCallback(msg) ==
    /\ pc = "reading"
    /\ FailSetup("CSV Parse Error: " \o msg)

ParseNoRows(data) ==
    /\ pc = "reading"
    /\ FilterRows(data) = <<>>
    /\ FailSetup("CSV is empty or contains no valid data rows.")

\* ---------------------------------------------------------------- row loop

\* Fault: the output of a row is dropped.
AppendNothing(bp, name, data) == bp

\* setBatchProgress(prev => ({...prev, generatedFiles: [...prev.generatedFiles, file]}))
AppendFile(bp, name, data) ==
    [bp EXCEPT !.generatedFiles = Append(@, [filename |-> name, data |-> data])]

\* Fault: the row is published with the 1-based index.
PublishNextIndex(bp, idx, name) ==
    [bp EXCEPT !.current = idx + 1, !.currentFileName = <<"Generating: ", name>>]

\* setBatchProgress(prev => ({...prev, current: i, currentFileName: ...}))
PublishRow(bp, idx, name) ==
    [bp EXCEPT !.current = idx, !.currentFileName = <<"Generating: ", name>>]

\* String.replace(pattern, ''): the first occurrence is removed.
RECURSIVE RemoveFirst(_, _)
RemoveFirst(pieces, pattern) ==
    IF pieces = <<>> THEN <<>>
    ELSE IF Head(pieces) = pattern THEN Tail(pieces)
    ELSE <<Head(pieces)>> \o RemoveFirst(Tail(pieces), pattern)

\* onRetryCallback(attempt, delay)
OnRetryCallback(bp, attempt, delay) ==
    [bp EXCEPT !.currentFileName =
        <<"Rate limit hit. Retrying ">> \o RemoveFirst(@, "Generating: ")
            \o <<" in ", ToString(delay \div 1000), "s... (Attempt ",
                 ToString(attempt), ")">>]

\* Fault: the completion ignores the failure counter.
AlwaysDone(bp, n, f, msg) ==
    [bp EXCEPT !.status = "done", !.current = n,
               !.currentFileName = <<"Completed!">>]

\* Fault: the completion does not set current to rows.length.
CompletionWithoutCurrent(bp, n, f, msg) ==
    IF f > 0
    THEN [bp EXCEPT !.status = "error",
                    !.error = ToString(f) \o " of " \o ToString(n)
                                  \o " assets failed. First error: " \o msg,
                    !.currentFileName = <<"Completed with errors.">>]
    ELSE [bp EXCEPT !.status = "done", !.currentFileName = <<"Completed!">>]

\* Fault: the completion rewinds current.
CompletionRewinds(bp, n, f, msg) ==
    IF f > 0
    THEN [bp EXCEPT !.status = "error",
                    !.error = ToString(f) \o " of " \o ToString(n)
                                  \o " assets failed. First error: " \o msg,
                    !.current = 0,
                    !.currentFileName = <<"Completed with errors.">>]
    ELSE [bp EXCEPT !.status = "done", !.current = 0,
                    !.currentFileName = <<"Completed!">>]

\* The two setBatchProgress calls after the loop.
Completion(bp, n, f, msg) ==
    IF f > 0
    THEN [bp EXCEPT !.status = "error",
                    !.error = ToString(f) \o " of " \o ToString(n)
                                  \o " assets failed. First error: " \o msg,
                    !.current = n,
                    !.currentFileName = <<"Completed with errors.">>]
    ELSE [bp EXCEPT !.status = "done", !.current = n,
                    !.currentFileName = <<"Completed!">>]

\* if (!firstErrorMessage) firstErrorMessage = `Error on ${fileName}: ...`
FirstError(msg, name, errorMessage) ==
    IF msg = "" THEN "Error on " \o name \o ": " \o errorMessage ELSE msg

\* The placeholder the catch block asks for.
RowPlaceholder(style, row) ==
    GeneratePlaceholder(OrStr(RowPrompt(style, row), "Invalid prompt data"),
                        PlaceholderWidth(row), PlaceholderHeight(row))

\* One loop iteration from its start to its first await: the row is
\* published, parsed and validated; a valid row calls generateFunc, an invalid
\* one throws into the catch block, which awaits the placeholder.
BeginRow(bp, idx, f, msg, n) ==
    LET row == RowAt(rows', idx)
        name == FileName(row, idx)
    IN  /\ batchProgress' = PublishRow(bp, idx, name)
        /\ i' = idx
        /\ IF RowIsValid(row)
           THEN /\ call' = StartCall(engine, apiKey, ComposePrompt(masterStyle, row),
                                     ParseInt(WidthStr(row)).n,
                                     ParseInt(HeightStr(row)).n, TRUE)
                /\ genCalls' = n + 1
                /\ failures' = f
                /\ firstErrorMessage' = msg
                /\ pc' = "await_generate"
           ELSE /\ call' = Resolved(RowPlaceholder(masterStyle, row))
                /\ genCalls' = n
                /\ failures' = f + 1
                /\ firstErrorMessage' = FirstError(msg, name, ValidationMessage(idx))
                /\ pc' = "await_placeholder"

\* complete(results) without errors and with at least one row left by the
\* filter: total is set and the loop starts.
ParseRows(data) ==
    /\ pc = "reading"
    /\ FilterRows(data) # <<>>
    /\ rows' = FilterRows(data)
    /\ BeginRow([batchProgress EXCEPT !.total = Len(FilterRows(data)),
                                      !.currentFileName = <<"Starting generation...">>],
                0, 0, "", genCalls)
    /\ UNCHANGED <<engine, apiKey, masterStyle>>
    /\ UNCHANGED <<delays, singleVars, evaluation, panelVars>>

\* Fault: a failed row ends the loop.
FinallyStopsOnFailure(bp) ==
    IF failures > 0
    THEN /\ batchProgress' = [bp EXCEPT !.status = "error"]
         /\ pc' = "idle"
         /\ delays' = delays
    ELSE IF i < Len(rows) - 1
    THEN /\ batchProgress' = bp
         /\ pc' = "inter_delay"
         /\ delays' = Append(delays, INTER_ITEM_DELAY)
    ELSE /\ batchProgress' = Completion(bp, Len(rows), failures, firstErrorMessage)
         /\ pc' = "idle"
         /\ delays' = delays

\* Fault: the inter-item delay is skipped after a failed row.
FinallySleepsAfterSuccessOnly(bp) ==
    IF i < Len(rows) - 1
    THEN /\ batchProgress' = bp
         /\ pc' = "inter_delay"
         /\ delays' = IF pc = "await_placeholder" THEN delays
                      ELSE Append(delays, INTER_ITEM_DELAY)
    ELSE /\ batchProgress' = Completion(bp, Len(rows), failures, firstErrorMessage)
         /\ pc' = "idle"
         /\ delays' = delays

\* The finally block and what follows it: the inter-item delay, or after the
\* last row the end of the loop and the completion.
Finally(bp) ==
    IF i < Len(rows) - 1
    THEN /\ batchProgress' = bp
         /\ pc' = "inter_delay"
         /\ delays' = Append(delays, INTER_ITEM_DELAY)
    ELSE /\ batchProgress' = Completion(bp, Len(rows), failures, firstErrorMessage)
         /\ pc' = "idle"
         /\ delays' = delays

\* await generateFunc(...) resumes with the image.
RowFulfilled ==
    /\ pc = "await_generate"
    /\ call.st = "fulfilled"
    /\ Finally(AppendFile(batchProgress, FileName(RowAt(rows, i), i), call.value))
    /\ UNCHANGED jobLocals
    /\ UNCHANGED <<singleVars, evaluation, panelVars>>

\* await generateFunc(...) throws: the catch block up to its await.
RowRejected ==
    /\ pc = "await_generate"
    /\ call.st = "rejected"
    /\ failures' = failures + 1
    /\ firstErrorMessage' =
           FirstError(firstErrorMessage, FileName(RowAt(rows, i), i), call.reason)
    /\ call' = Resolved(RowPlaceholder(masterStyle, RowAt(rows, i)))
    /\ pc' = "await_placeholder"
    /\ UNCHANGED <<batchProgress, engine, apiKey, masterStyle, rows, i, genCalls>>
    /\ UNCHANGED <<delays, singleVars, evaluation, panelVars>>

\* await generatePlaceholder(...) resumes: the placeholder is appended.
PlaceholderReady ==
    /\ pc = "await_placeholder"
    /\ call.st = "fulfilled"
    /\ Finally(AppendFile(batchProgress, FileName(RowAt(rows, i), i), call.value))
    /\ UNCHANGED jobLocals
    /\ UNCHANGED <<singleVars, evaluation, panelVars>>

\* The inter-item timer fires: the next iteration starts.
DelayElapsed ==
    /\ pc = "inter_delay"
    /\ UNCHANGED <<engine, apiKey, masterStyle, rows>>
    /\ UNCHANGED <<delays, singleVars, evaluation, panelVars>>
    /\ BeginRow(batchProgress, i + 1, failures, firstErrorMessage, genCalls)

\* --------------------------------------------------- engine calls in flight

GeminiSettles(o) ==
    /\ pc = "await_generate"
    /\ call.engine = "gemini"
    /\ call.st = "pending"
    /\ call' = GeminiAfterRequest(call, o)
    /\ UNCHANGED <<batchProgress, pc, engine, apiKey, masterStyle, rows, i,
                   failures, firstErrorMessage, genCalls>>
    /\ UNCHANGED <<delays, singleVars, evaluation, panelVars>>

OpenAISettles(o) ==
    /\ pc = "await_generate"
    /\ call.engine \in {"dalle3", "deepseek"}
    /\ call.st = "pending"
    /\ call' = OpenAIAfterRequest(call, o)
    /\ UNCHANGED <<batchProgress, pc, engine, apiKey, masterStyle, rows, i,
                   failures, firstErrorMessage, genCalls>>
    /\ UNCHANGED <<delays, singleVars, evaluation, panelVars>>

\* The fetch of the current attempt settles; a retry tells the runner's
\* observer, which rewrites the label.
PublicAttemptEnds(r) ==
    /\ pc = "await_generate"
    /\ call.engine = "public"
    /\ call.st = "fetching"
    /\ call' = PublicAfterAttempt(call, r)
    /\ batchProgress' =
           IF Len(call'.notified) > Len(call.notified)
           THEN OnRetryCallback(batchProgress, call.attempt,
                                call'.notified[Len(call'.notified)][2])
           ELSE batchProgress
    /\ UNCHANGED <<pc, engine, apiKey, masterStyle, rows, i, failures,
                   firstErrorMessage, genCalls>>
    /\ UNCHANGED <<delays, singleVars, evaluation, panelVars>>

PublicBackoffEnds ==
    /\ pc = "await_generate"
    /\ call.engine = "public"
    /\ call.st = "backoff"
    /\ call' = PublicNextAttempt(call)
    /\ UNCHANGED <<batchProgress, pc, engine, apiKey, masterStyle, rows, i,
                   failures, firstErrorMessage, genCalls>>
    /\ UNCHANGED <<delays, singleVars, evaluation, panelVars>>

Next ==
    \/ \E e \in Engines : \E key \in KeysOf(e) : \E style \in MasterStyles :
           StartJob(e, key, style)
    \/ ReaderOnError
    \/ ReaderLoadEmpty
    \/ \E msg \in ParseErrorMessages : \E row \in 0..MaxRows : ParseErrors(msg, row)
    \/ \E msg \in ParseErrorMessages : PapaErrorCallback(msg)
    \/ \E data \in ParsedData : ParseNoRows(data)
    \/ \E data \in ParsedData : ParseRows(data)
    \/ RowFulfilled
    \/ RowRejected
    \/ PlaceholderReady
    \/ DelayElapsed
    \/ \E o \in GeminiOutcomes : GeminiSettles(o)
    \/ \E o \in OpenAIOutcomes : OpenAISettles(o)
    \/ \E r \in PublicOutcomes : PublicAttemptEnds(r)
    \/ PublicBackoffEnds

Spec == Init /\ [][Next]_vars

\* The rows of the files chosen where the end of the job is at stake: one
\* row that is valid and one that fails validation.
LiveRows == { r \in SampleRows : "hero" \in {r.nama_file, r.filename} }

LiveData == SeqsUpTo(LiveRows, MaxRows)

\* What a started job does by itself: the reader and the parser call back,
\* awaited promises resume the loop, timers fire and requests settle.
JobStep ==
    \/ ReaderOnError
    \/ ReaderLoadEmpty
    \/ \E msg \in ParseErrorMessages : \E row \in 0..MaxRows : ParseErrors(msg, row)
    \/ \E msg \in ParseErrorMessages : PapaErrorCallback(msg)
    \/ \E data \in LiveData : ParseNoRows(data)
    \/ \E data \in LiveData : ParseRows(data)
    \/ RowFulfilled
    \/ RowRejected
    \/ PlaceholderReady
    \/ DelayElapsed
    \/ \E o \in GeminiOutcomes : GeminiSettles(o)
    \/ \E o \in OpenAIOutcomes : OpenAISettles(o)
    \/ \E r \in PublicOutcomes : PublicAttemptEnds(r)
    \/ PublicBackoffEnds

LiveNext ==
    \/ \E e \in Engines : \E key \in KeysOf(e) : StartJob(e, key, masterStyle)
    \/ JobStep

\* The event loop runs every callback that is due and every request and
\* timer comes to an end; choosing a file is left to the user.
LiveSpec == Init /\ [][LiveNext]_vars /\ WF_vars(JobStep)

\* ------------------------------------------------------------ single shot

\* The prompt handleGenerateSingle composes from the panel's defaults.
FullPrompt ==
    "retro-futurism, pixel art, vibrant colors, Karakter, Kepala, facing kanan, "
        \o "a stoic male hero, " \o ToString(DEFAULT_WIDTH) \o "x"
        \o ToString(DEFAULT_HEIGHT) \o " pixels, transparent background, centered"

\* What the user types into the variations input: nothing, a word, numbers
\* below, within and above the range of the input.
TypedCounts ==
    { <<>>, <<"a">>, <<"-", "1">>, <<"0">>, <<"1">>, <<"2">>, <<"3">>, <<"4">>,
      <<"5">>, <<"1", "0">> }

Max(a, b) == IF a >= b THEN a ELSE b

Min(a, b) == IF a <= b THEN a ELSE b

\* x || 1 on a number.
OrOne(x) == IF Truthy(x) THEN x.n ELSE 1

\* onChange of the variations input:
\* Math.max(1, Math.min(4, parseInt(e.target.value) || 1))
TypedVariations(raw) == Max(1, Min(MAX_VARIATIONS, OrOne(ParseInt(raw))))

IsSingleVariationEngine(e) == e \in {"public", "dalle3", "deepseek"}

\* Fault: the clamp does not look at the engine.
ClampIgnoresEngine(e, n) == Max(1, Min(MAX_VARIATIONS, OrOne(Num(n))))

\* clampedVariations
ClampedVariations(e, n) ==
    IF IsSingleVariationEngine(e) THEN 1
    ELSE Max(1, Min(MAX_VARIATIONS, OrOne(Num(n))))

\* Fault: the handler resumes as soon as one promise has settled.
AnySettled(vs) == \E k \in 1..Len(vs) : vs[k].st \in {"fulfilled", "rejected"}

\* Promise.allSettled(promises) has its result.
AllSettled(vs) == \A k \in 1..Len(vs) : vs[k].st \in {"fulfilled", "rejected"}

\* results.filter(fulfilled).map(result => ({src: result.value, prompt: fullPrompt}))
RECURSIVE SuccessfulImages(_)
SuccessfulImages(vs) ==
    IF vs = <<>> THEN <<>>
    ELSE (IF Head(vs).st = "fulfilled"
          THEN << [src |-> Head(vs).value, prompt |-> FullPrompt] >>
          ELSE <<>>) \o SuccessfulImages(Tail(vs))

\* Fault: the last rejected result is reported.
LastRejected(vs) ==
    vs[CHOOSE k \in 1..Len(vs) :
          /\ vs[k].st = "rejected"
          /\ \A j \in (k + 1)..Len(vs) : vs[j].st # "rejected"]

\* results.find(r => r.status === 'rejected')
FirstRejected(vs) ==
    vs[CHOOSE k \in 1..Len(vs) :
          /\ vs[k].st = "rejected"
          /\ \A j \in 1..(k - 1) : vs[j].st # "rejected"]

\* Fault: the warning counts the failed variations.
WarningCountsFailed(x, y) ==
    "Generated " \o ToString(y - x) \o " of " \o ToString(y)
        \o " variations. Some failed."

\* `Generated ${successfulImages.length} of ${clampedVariations} variations. Some failed.`
PartialWarning(x, y) ==
    "Generated " \o ToString(x) \o " of " \o ToString(y)
        \o " variations. Some failed."

\* firstError?.reason instanceof Error ? firstError.reason.message : "All ..."
\* (every rejection of the engine functions carries an Error).
ReasonOf(c) ==
    IF c.reason # Undefined THEN c.reason ELSE "All variations failed to generate."

\* The error the handler sets after the results are in; prev when it sets none.
AggregateError(vs, prev) ==
    LET ok == Len(SuccessfulImages(vs))
    IN  IF Len(vs) - ok > 0
        THEN IF ok > 0 THEN PartialWarning(ok, Len(vs))
             ELSE ReasonOf(FirstRejected(vs))
        ELSE prev

\* if (successfulImages.length > 0) setGeneratedImages([...successfulImages, ...generatedImages])
AggregateImages(vs, captured, now) ==
    IF SuccessfulImages(vs) # <<>> THEN SuccessfulImages(vs) \o captured ELSE now

\* One of the four engine buttons.
SetEngine(e) ==
    /\ spc = "idle"
    /\ e # singleEngine
    /\ singleEngine' = e
    /\ UNCHANGED <<generatedImages, isLoading, singleError, spc, numberOfVariations,
                   requested, capturedImages, variations>>
    /\ UNCHANGED <<batchVars, evaluation, panelVars>>

\* The variations input, enabled for the engine with several outputs.
SetVariations(raw) ==
    /\ spc = "idle"
    /\ ~IsSingleVariationEngine(singleEngine)
    /\ numberOfVariations' = TypedVariations(raw)
    /\ requested' = ParseInt(raw)
    /\ UNCHANGED <<generatedImages, isLoading, singleError, spc, singleEngine,
                   capturedImages, variations>>
    /\ UNCHANGED <<batchVars, evaluation, panelVars>>

\* handleGenerateSingle up to await Promise.allSettled(promises): every
\* variation's engine function has run to its first suspension.
StartSingle(key) ==
    /\ ~isLoading
    /\ Len(generatedImages) < MaxImages
    /\ isLoading' = TRUE
    /\ singleError' = Undefined
    /\ capturedImages' = generatedImages
    /\ variations' =
           [k \in 1..ClampedVariations(singleEngine, numberOfVariations) |->
               StartCall(singleEngine, key, FullPrompt, DEFAULT_WIDTH, DEFAULT_HEIGHT, FALSE)]
    /\ spc' = "awaiting"
    /\ UNCHANGED <<generatedImages, numberOfVariations, requested, singleEngine>>
    /\ UNCHANGED <<batchVars, evaluation, panelVars>>

\* The handler resumes with the results: images, error, finally.
Aggregate ==
    /\ spc = "awaiting"
    /\ AllSettled(variations)
    /\ generatedImages' = AggregateImages(variations, capturedImages, generatedImages)
    /\ singleError' = AggregateError(variations, singleError)
    /\ isLoading' = FALSE
    /\ spc' = "idle"
    /\ UNCHANGED <<numberOfVariations, requested, singleEngine, capturedImages,
                   variations>>
    /\ UNCHANGED <<batchVars, evaluation, panelVars>>

VariationGeminiSettles(k, o) ==
    /\ spc = "awaiting"
    /\ variations[k].engine = "gemini"
    /\ variations[k].st = "pending"
    /\ variations' = [variations EXCEPT ![k] = GeminiAfterRequest(@, o)]
    /\ UNCHANGED <<generatedImages, isLoading, singleError, spc, numberOfVariations,
                   requested, singleEngine, capturedImages>>
    /\ UNCHANGED <<batchVars, evaluation, panelVars>>

VariationOpenAISettles(k, o) ==
    /\ spc = "awaiting"
    /\ variations[k].engine \in {"dalle3", "deepseek"}
    /\ variations[k].st = "pending"
    /\ variations' = [variations EXCEPT ![k] = OpenAIAfterRequest(@, o)]
    /\ UNCHANGED <<generatedImages, isLoading, singleError, spc, numberOfVariations,
                   requested, singleEngine, capturedImages>>
    /\ UNCHANGED <<batchVars, evaluation, panelVars>>

VariationPublicAttemptEnds(k, r) ==
    /\ spc = "awaiting"
    /\ variations[k].engine = "public"
    /\ variations[k].st = "fetching"
    /\ variations' = [variations EXCEPT ![k] = PublicAfterAttempt(@, r)]
    /\ UNCHANGED <<generatedImages, isLoading, singleError, spc, numberOfVariations,
                   requested, singleEngine, capturedImages>>
    /\ UNCHANGED <<batchVars, evaluation, panelVars>>

VariationPublicBackoffEnds(k) ==
    /\ spc = "awaiting"
    /\ variations[k].engine = "public"
    /\ variations[k].st = "backoff"
    /\ variations' = [variations EXCEPT ![k] = PublicNextAttempt(@)]
    /\ UNCHANGED <<generatedImages, isLoading, singleError, spc, numberOfVariations,
                   requested, singleEngine, capturedImages>>
    /\ UNCHANGED <<batchVars, evaluation, panelVars>>

SingleNext ==
    \/ \E e \in Engines : SetEngine(e)
    \/ \E raw \in TypedCounts : SetVariations(raw)
    \/ \E key \in KeysOf(singleEngine) : StartSingle(key)
    \/ Aggregate
    \/ \E k \in DOMAIN variations : \E o \in GeminiOutcomes : VariationGeminiSettles(k, o)
    \/ \E k \in DOMAIN variations : \E o \in OpenAIOutcomes : VariationOpenAISettles(k, o)
    \/ \E k \in DOMAIN variations : \E r \in PublicOutcomes : VariationPublicAttemptEnds(k, r)
    \/ \E k \in DOMAIN variations : VariationPublicBackoffEnds(k)

SingleSpec == Init /\ [][SingleNext]_vars

\* ------------------------------------------------ user upload and download

\* The files the user drops or picks: an image the input accepts, and two
\* files only a drop can bring, one of them with no known type.
SpriteFile == [name |-> "sprite.png", type |-> <<"image/", "png">>]

NotesFile == [name |-> "notes.txt", type |-> <<"text/", "plain">>]

UntypedFile == [name |-> "README", type |-> <<>>]

\* The drops and picks: images only, images among other files, no image.
FileLists ==
    { <<SpriteFile>>, <<NotesFile, SpriteFile>>, <<SpriteFile, SpriteFile>>,
      <<UntypedFile>>, <<NotesFile, UntypedFile>> }

\* file.type.startsWith('image/')
IsImageFile(file) == file.type # <<>> /\ Head(file.type) = "image/"

\* Array.from(files).filter(file => file.type.startsWith('image/'))
ImageFiles(files) == SelectSeq(files, IsImageFile)

\* What readAsDataURL hands to onload for a file.
DataUrl(file) == "data:" \o Text(file.type) \o ";base64," \o file.name

\* The sequence without its element at position u.
Without(seq, u) ==
    [k \in 1..(Len(seq) - 1) |-> IF k < u THEN seq[k] ELSE seq[k + 1]]

\* setGeneratedImages([...generatedImages, ...newImages])
UploadedImages(captured, newImages) == captured \o newImages

\* handleUserUpload: the image files are handed to one FileReader each.
StartUpload(files) ==
    /\ Len(uploads) < MaxUploads
    /\ Len(generatedImages) < MaxImages
    /\ ImageFiles(files) # <<>>
    /\ uploads' = Append(uploads,
           [captured |-> generatedImages, imageFiles |-> ImageFiles(files),
            unread |-> DOMAIN ImageFiles(files), newImages |-> <<>>,
            loadedCount |-> 0])
    /\ UNCHANGED download
    /\ UNCHANGED <<batchVars, singleVars, evaluation>>

\* reader.onload of one file: the image is kept, and the last file to load
\* writes the list.
FileLoaded(u, k) ==
    /\ k \in uploads[u].unread
    /\ LET up == uploads[u]
           newImages == Append(up.newImages,
                               [src |-> DataUrl(up.imageFiles[k]),
                                prompt |-> up.imageFiles[k].name])
       IN  IF up.loadedCount + 1 = Len(up.imageFiles)
           THEN /\ generatedImages' = UploadedImages(up.captured, newImages)
                /\ uploads' = Without(uploads, u)
           ELSE /\ uploads' = [uploads EXCEPT ![u].unread = @ \ {k},
                                              ![u].newImages = newImages,
                                              ![u].loadedCount = @ + 1]
                /\ UNCHANGED generatedImages
    /\ UNCHANGED download
    /\ UNCHANGED <<isLoading, singleError, spc, numberOfVariations, requested,
                   singleEngine, capturedImages, variations>>
    /\ UNCHANGED <<batchVars, evaluation>>

\* A file cannot be read: the reader has no onerror handler, loadedCount
\* never reaches the number of files and the call never writes the list.
FileUnreadable(u, k) ==
    /\ k \in uploads[u].unread
    /\ uploads' = Without(uploads, u)
    /\ UNCHANGED download
    /\ UNCHANGED <<batchVars, singleVars, evaluation>>

\* zip.file(name, data): an entry of that name is replaced.
ZipFile(zip, file) ==
    IF \E k \in DOMAIN zip : zip[k].filename = file.filename
    THEN [k \in DOMAIN zip |->
             IF zip[k].filename = file.filename THEN file ELSE zip[k]]
    ELSE Append(zip, file)

\* generatedFiles.forEach(file => zip.file(file.filename, blob))
RECURSIVE ZipOf(_)
ZipOf(files) ==
    IF files = <<>> THEN <<>>
    ELSE ZipFile(ZipOf(SubSeq(files, 1, Len(files) - 1)), files[Len(files)])

\* Fault: the download empties the job's files once it has saved them.
ZipGeneratedClearsFiles ==
    /\ download.st = "generating"
    /\ download' = [download EXCEPT !.st = "saved"]
    /\ batchProgress' = [batchProgress EXCEPT !.generatedFiles = <<>>]
    /\ UNCHANGED uploads
    /\ UNCHANGED <<pc, jobLocals, delays>>
    /\ UNCHANGED <<singleVars, evaluation>>

\* handleDownloadZip up to await zip.generateAsync: the button is enabled
\* when the job is over, and nothing is built from no files.
DownloadZip ==
    /\ download.st # "generating"
    /\ batchProgress.status \in {"done", "error"}
    /\ batchProgress.generatedFiles # <<>>
    /\ download' = [st |-> "generating",
                    entries |-> ZipOf(batchProgress.generatedFiles),
                    files |-> Len(batchProgress.generatedFiles)]
    /\ UNCHANGED uploads
    /\ UNCHANGED <<batchVars, singleVars, evaluation>>

\* The archive is generated and saved through the temporary link.
ZipGenerated ==
    /\ download.st = "generating"
    /\ download' = [download EXCEPT !.st = "saved"]
    /\ UNCHANGED uploads
    /\ UNCHANGED <<batchVars, singleVars, evaluation>>

\* What a request of the job comes to where the operations of the panel
\* are interleaved: an image or a failure that is not retried.
PanelOutcomes == {"image", "errother"}

\* The files of two rows chosen where the panel's operations are
\* interleaved: the two rows of LiveRows, which derive the same filename,
\* in both orders.
PanelData == { data \in LiveRows \X LiveRows : data[1] # data[2] }

\* The panel where every operation is at hand: a batch job of the rows of
\* PanelData on the panel's first engine, a single shot with the panel's
\* defaults whose request brings an image, uploads and the download.
PanelNext ==
    \/ StartJob("gemini", "sk-key", masterStyle)
    \/ \E data \in PanelData : ParseRows(data)
    \/ RowFulfilled
    \/ RowRejected
    \/ PlaceholderReady
    \/ DelayElapsed
    \/ \E o \in PanelOutcomes : GeminiSettles(o)
    \/ StartSingle("sk-key")
    \/ \E k \in DOMAIN variations : VariationGeminiSettles(k, "image")
    \/ Aggregate
    \/ \E files \in FileLists : StartUpload(files)
    \/ \E u \in DOMAIN uploads : \E k \in uploads[u].unread : FileLoaded(u, k)
    \/ \E u \in DOMAIN uploads : \E k \in uploads[u].unread : FileUnreadable(u, k)
    \/ DownloadZip
    \/ ZipGenerated

PanelSpec == Init /\ [][PanelNext]_vars

\* ------------------------------------------------- helper functions alone

\* The UTF-16 code units the prompts are written in: the space, z and the
\* euro sign.
SeedChars == {32, 122, 8364}

RatioInputs ==
    { [NoEvaluation EXCEPT !.fn = "getClosestAspectRatio",
                           !.width = w, !.height = h] :
          w \in (-MaxDim)..MaxDim, h \in (-MaxDim)..MaxDim }

SeedInputs ==
    { [NoEvaluation EXCEPT !.fn = "stringToSeed", !.str = str] :
          str \in SeqsUpTo(SeedChars, MaxPromptLen) }

\* A helper function is about to be called with arguments of its domain.
HelperInit ==
    /\ PanelInit
    /\ evaluation \in RatioInputs \cup SeedInputs

\* aspectRatio: getClosestAspectRatio(width, height)
CallGetClosestAspectRatio ==
    /\ evaluation.fn = "getClosestAspectRatio"
    /\ evaluation.calls = 0
    /\ evaluation' =
           [evaluation EXCEPT !.calls = 1,
               !.ratio = GetClosestAspectRatio(evaluation.width, evaluation.height)]
    /\ UNCHANGED <<batchVars, singleVars, panelVars>>

\* const seed = stringToSeed(prompt), at the head of every attempt of the
\* public model
CallStringToSeed ==
    /\ evaluation.fn = "stringToSeed"
    /\ evaluation.calls < MaxDerivations
    /\ evaluation' = [evaluation EXCEPT !.calls = @ + 1,
                                        !.seed = StringToSeed(evaluation.str)]
    /\ UNCHANGED <<batchVars, singleVars, panelVars>>

HelperNext == CallGetClosestAspectRatio \/ CallStringToSeed

HelperSpec == HelperInit /\ [][HelperNext]_vars

\* ------------------------------------------------- vocabulary of the claims

Settled(c) == c.st \in {"fulfilled", "rejected"}

\* The job has gone through its rows and reached done or error.
JobFinished ==
    /\ rows # <<>>
    /\ batchProgress.status \in {"done", "error"}

\* The job ended during setup: no row list was ever handed to the loop.
SetupEnded ==
    /\ pc = "idle"
    /\ rows = <<>>
    /\ batchProgress # InitialProgress

\* An attempt of the public model that the retry loop saw fail.
AttemptFailed(r) ==
    \/ r = NetworkError
    \/ ~(r.status >= 200 /\ r.status <= 299)
    \/ r.blobType \notin {"image/jpeg", "image/png"}

\* A retryable failure in the words of the retry policy: a transport error,
\* a 5xx status or a 429 status.
RetryableFailure(r) ==
    r = NetworkError \/ r.status >= 500 \/ r.status = 429

\* A 4xx status other than 429.
TerminalStatus(r) ==
    r.status >= 400 /\ r.status <= 499 /\ r.status # 429

\* The filename the output of row idx is to carry: its file base name, or
\* asset_<idx> when it has none, with the .png suffix.
ExpectedFileName(row, idx) ==
    IF row.nama_file # "" THEN row.nama_file \o ".png"
    ELSE IF row.filename # "" THEN row.filename \o ".png"
    ELSE "asset_" \o ToString(idx) \o ".png"

IsPlaceholder(file) == file.data.kind = "placeholder"

IsRealImage(file) == file.data.kind = "image"

\* ------------------------------------------------------------------ claims

\* C1: when a batch job over a non-empty row list of length N has reached
\* done or error, generatedFiles.length, current and total all equal N.
C1_CompletedJobCounts ==
    JobFinished =>
        /\ Len(batchProgress.generatedFiles) = Len(rows)
        /\ batchProgress.current = Len(rows)
        /\ batchProgress.total = Len(rows)

C1_Witness ==
    /\ JobFinished
    /\ Len(rows) = 2
    /\ failures = 1
    /\ Len(batchProgress.generatedFiles) = 2

\* C2 as stated: in every state after row processing has started, also right
\* after a row's result was appended and during the inter-item delay,
\* generatedFiles.length equals current.
C2_LengthEqualsCurrent ==
    rows # <<>> => Len(batchProgress.generatedFiles) = batchProgress.current

\* C2 as amended: generatedFiles.length equals current while a row is being
\* attempted (retry backoff included) and once the job has finished; after a
\* row's result has been appended and until the next row is published, that
\* is during the inter-item delay, it equals current + 1.
C2_LengthTracksCurrent ==
    rows # <<>> =>
        IF pc = "inter_delay"
        THEN Len(batchProgress.generatedFiles) = batchProgress.current + 1
        ELSE Len(batchProgress.generatedFiles) = batchProgress.current

C2_Witness ==
    /\ pc = "inter_delay"
    /\ batchProgress.current = 0
    /\ Len(batchProgress.generatedFiles) = 1

\* C3: the step that completes a job over a non-empty row list sets status
\* to done if the failure counter is 0 and to error otherwise, and in both
\* cases keeps every entry of generatedFiles, placeholders included.
C3_StatusFollowsFailures ==
    [][ (pc # "idle" /\ pc' = "idle" /\ rows # <<>>) =>
            /\ batchProgress'.status = IF failures' = 0 THEN "done" ELSE "error"
            /\ Len(batchProgress'.generatedFiles) = Len(rows)
            /\ SubSeq(batchProgress'.generatedFiles, 1,
                      Len(batchProgress.generatedFiles)) = batchProgress.generatedFiles
      ]_vars

C3_Witness ==
    /\ JobFinished
    /\ batchProgress.status = "error"
    /\ failures = 1
    /\ \E k \in 1..Len(batchProgress.generatedFiles) :
           IsPlaceholder(batchProgress.generatedFiles[k])
    /\ \E k \in 1..Len(batchProgress.generatedFiles) :
           IsRealImage(batchProgress.generatedFiles[k])

\* C4 as stated: for every engine, when the generation of a batch row has
\* failed on all of its attempts, the runner on resuming counts one more
\* failure (so that the job cannot end done).
C4_FailedRowIsCounted ==
    [][ ( /\ pc = "await_generate"
          /\ pc' # "await_generate"
          /\ \/ call.st = "rejected"
             \/ (call.log # <<>> /\ \A k \in 1..Len(call.log) : AttemptFailed(call.log[k])) )
        => failures' = failures + 1
      ]_vars

\* C5 as stated: when the attempts of a retry-controlled call are exhausted,
\* or a terminal failure aborts them, the call is rejected with the last
\* observed error and is never fulfilled with a placeholder.
C5_ExhaustedCallRejects ==
    ( /\ call.engine = "public"
      /\ Settled(call)
      /\ call.log # <<>>
      /\ AttemptFailed(call.log[Len(call.log)]) )
    => /\ call.st = "rejected"
       /\ call.reason = call.lastError
       /\ call.value.kind # "placeholder"

\* C6 as stated: the status is processing only after the row set is known to
\* be non-empty and well-formed, so a job with invalid input is never
\* processing on its way to error.
C6_ProcessingOnlyWithRows ==
    batchProgress.status = "processing" => rows # <<>>

\* C6 as amended: the status is processing from the moment the file is
\* chosen; while the row set is not yet known the job only reads and parses
\* (total is 0, no row is attempted, nothing is generated), and a row is
\* attempted or total allocated only once the row set is known to be
\* non-empty with no blank row, total being its length.
C6_RowsAttemptedOnlyWhenKnown ==
    /\ (batchProgress.status = "processing" /\ rows = <<>>) =>
           /\ pc = "reading"
           /\ batchProgress.total = 0
           /\ batchProgress.current = 0
           /\ batchProgress.generatedFiles = <<>>
           /\ genCalls = 0
    /\ ( \/ pc \in {"await_generate", "await_placeholder", "inter_delay"}
         \/ batchProgress.total > 0
         \/ genCalls > 0 ) =>
           /\ rows # <<>>
           /\ \A k \in 1..Len(rows) : rows[k] # BlankRow
           /\ batchProgress.total = Len(rows)

C6_Witness ==
    /\ batchProgress.status = "processing"
    /\ pc = "reading"
    /\ rows = <<>>

\* C7: on every invalid-input path the job ends with status error, a
\* non-empty error reason, total = 0, current = 0 and no generated file, and
\* no generation call has been made.
C7_SetupFailureState ==
    SetupEnded =>
        /\ batchProgress.status = "error"
        /\ batchProgress.error # Undefined
        /\ batchProgress.error # ""
        /\ batchProgress.total = 0
        /\ batchProgress.current = 0
        /\ batchProgress.generatedFiles = <<>>
        /\ genCalls = 0
        /\ call.requests = 0

C7_Witness ==
    /\ SetupEnded
    /\ batchProgress.error = "CSV is empty or contains no valid data rows."

\* C8: every row contributes exactly one entry to generatedFiles, in input
\* row order: entry k carries the filename derived from row k, at any time,
\* and a finished job has one entry per row.
C8_OneEntryPerRowInOrder ==
    rows # <<>> =>
        /\ Len(batchProgress.generatedFiles) <= Len(rows)
        /\ \A k \in 1..Len(batchProgress.generatedFiles) :
               batchProgress.generatedFiles[k].filename
                   = ExpectedFileName(rows[k], k - 1)
        /\ JobFinished => Len(batchProgress.generatedFiles) = Len(rows)

C8_Witness ==
    /\ JobFinished
    /\ Len(rows) = 2
    /\ IsRealImage(batchProgress.generatedFiles[1])
    /\ IsPlaceholder(batchProgress.generatedFiles[2])
    /\ batchProgress.generatedFiles[2].filename = "asset_1.png"

\* C9: when every attempt of a retry-controlled call fails with a retryable
\* failure, exactly 3 attempts are made, the backoff slept after attempt 1 is
\* 2000 and after attempt 2 is 4000, and none follows attempt 3.
C9_ThreeAttemptsWithBackoff ==
    ( /\ call.engine = "public"
      /\ \A k \in 1..Len(call.log) : RetryableFailure(call.log[k]) )
    => /\ call.requests <= 3
       /\ Len(call.log) = 0 => call.sleeps = <<>>
       /\ Len(call.log) = 1 => (call.sleeps = <<2000>> /\ ~Settled(call))
       /\ Len(call.log) = 2 => (call.sleeps = <<2000, 4000>> /\ ~Settled(call))
       /\ Len(call.log) = 3 =>
              (call.sleeps = <<2000, 4000>> /\ Settled(call) /\ call.requests = 3)

C9_Witness ==
    /\ call.engine = "public"
    /\ Settled(call)
    /\ Len(call.log) = 3
    /\ \A k \in 1..3 : call.log[k].status = 500

\* C10: when an attempt of a retry-controlled call receives a 4xx status
\* other than 429, the call ends there: no further attempt is made, no
\* backoff is slept and the observer is not invoked for that failure.
C10_TerminalStatusAborts ==
    ( /\ call.engine = "public"
      /\ call.log # <<>>
      /\ TerminalStatus(call.log[Len(call.log)]) )
    => /\ Settled(call)
       /\ call.requests = Len(call.log)
       /\ Len(call.sleeps) = Len(call.log) - 1
       /\ Len(call.notified) = Len(call.log) - 1

C10_Witness ==
    /\ call.engine = "public"
    /\ call.log = <<Resp(400, "", "")>>
    /\ Settled(call)

\* A request or a backoff of the call is outstanding.
InFlight(c) == c.st \in {"pending", "fetching", "backoff"}

\* The messages with which a quota (429), server (5xx) or network failure of
\* CloudHighFidelity and StructuredCompatible reaches the caller.
QuotaOrTransientReasons ==
    { "Rate limit exceeded (429). You may have exceeded your quota. Please check your plan/billing and try again later.",
      "API Key Error (429): Your quota is 0 requests/minute. Please verify your Google AI Studio project has billing enabled and the API is active." }
    \cup { OpenAIFailed(ModelName(e), "Rate limit exceeded for " \o ModelName(e)
                                          \o " API (429). Please try again later.") :
              e \in {"dalle3", "deepseek"} }
    \cup { OpenAIFailed(ModelName(e), msg) : e \in {"dalle3", "deepseek"},
              msg \in {"API failed with status: 500", "Failed to fetch"} }

C17_RowsStrictlySequential ==
    [][genCalls' = genCalls + 1
         => /\ ~InFlight(call)
            /\ InFlight(call') \/ Settled(call')
            /\ Len(batchProgress'.generatedFiles) = i'
            /\ \A k \in 1..i' :
                  batchProgress'.generatedFiles[k].filename
                      = ExpectedFileName(RowAt(rows', k - 1), k - 1)]_vars

C17_Witness ==
    /\ pc = "await_generate"
    /\ i = 1
    /\ genCalls = 2
    /\ InFlight(call)
    /\ Len(batchProgress.generatedFiles) = 1

\* All rows of the job have been gone through and the job has ended.
AllRowsProcessed ==
    /\ JobFinished
    /\ pc = "idle"
    /\ Len(batchProgress.generatedFiles) = Len(rows)
    /\ batchProgress.current = Len(rows)

\* C18: a job that is processing rows ends as done or error with an output
\* for every row, whichever rows fail.
C18_JobRunsToCompletion ==
    (rows # <<>> /\ batchProgress.status = "processing") ~> AllRowsProcessed

C18_Witness ==
    /\ AllRowsProcessed
    /\ Len(rows) = MaxRows
    /\ failures = 1
    /\ IsPlaceholder(batchProgress.generatedFiles[1])

\* C19: no step of a job decreases current, and a job that has ended as
\* done or error has current = total.
C19_CurrentMonotone ==
    [][/\ pc # "idle" => batchProgress'.current >= batchProgress.current
       /\ batchProgress'.status \in {"done", "error"}
             => batchProgress'.current = batchProgress'.total]_vars

C19_Witness ==
    /\ JobFinished
    /\ batchProgress.total = MaxRows
    /\ batchProgress.current = batchProgress.total

\* C20: 0 <= current <= total in every state.
C20_CurrentWithinTotal ==
    /\ 0 <= batchProgress.current
    /\ batchProgress.current <= batchProgress.total

C20_Witness ==
    /\ pc = "reading"
    /\ batchProgress = StartState

\* --------------------------------------------------- single-shot claims

\* The calls of the run that fulfilled, by position.
Succeeded == { k \in DOMAIN variations : variations[k].st = "fulfilled" }

\* A single-shot run has gone through its aggregation.
RunFinished == spc = "idle" /\ variations # <<>>

\* The count the user asked for: what was typed, 1 when nothing readable was.
RequestedCount == IF requested.isNaN THEN 1 ELSE requested.n

\* C12: whatever was typed for the count, a run issues one call for
\* StructuredCompatible and PublicFallback and min(4, max(1, n)) calls for
\* CloudHighFidelity, never more than four.
C12_ClampedFanOut ==
    spc = "awaiting"
        => /\ Len(variations) <= 4
           /\ singleEngine \in {"dalle3", "deepseek", "public"} => Len(variations) = 1
           /\ singleEngine = "gemini"
                 => Len(variations) = Min(4, Max(1, RequestedCount))
           /\ \A k \in DOMAIN variations : variations[k].engine = singleEngine

C12_Witness ==
    /\ spc = "awaiting"
    /\ singleEngine = "gemini"
    /\ requested = Num(10)
    /\ Len(variations) = 4
    /\ \A k \in 1..4 : InFlight(variations[k])

\* C13: after a run in which X of the Y calls fulfilled, 1 <= X < Y, the
\* list has grown by exactly the X outputs, in issue order at its front, and
\* the error is "Generated X of Y variations. Some failed."; after a run in
\* which all calls fulfilled there is no error.
C13_PartialSuccess ==
    RunFinished =>
        LET X == Cardinality(Succeeded)
            Y == Len(variations)
        IN  /\ (1 <= X /\ X < Y)
                => /\ singleError = "Generated " \o ToString(X) \o " of "
                                       \o ToString(Y) \o " variations. Some failed."
                   /\ Len(generatedImages) = X + Len(capturedImages)
                   /\ \A j \in 1..X :
                         \E k \in Succeeded :
                            /\ Cardinality({m \in Succeeded : m <= k}) = j
                            /\ generatedImages[j].src = variations[k].value
            /\ X = Y => singleError = Undefined

C13_Witness ==
    /\ RunFinished
    /\ Len(variations) = 4
    /\ Succeeded = {1, 3}
    /\ singleError = "Generated 2 of 4 variations. Some failed."
    /\ Len(generatedImages) = 2

\* C14: after a run in which every call rejected, the error is the reason of
\* the first call in issue order and the list of images is the one the run
\* started with.
C14_AllFailed ==
    (RunFinished /\ Succeeded = {})
        => /\ singleError = variations[1].reason
           /\ singleError # Undefined
           /\ generatedImages = capturedImages

C14_Witness ==
    /\ RunFinished
    /\ Len(variations) = 2
    /\ Succeeded = {}
    /\ variations[1].reason # variations[2].reason
    /\ singleError = variations[1].reason
    /\ generatedImages # <<>>

\* C15: the handler resumes, and the list and the error change, only in a
\* step that finds every call settled; a step that moves one call leaves
\* the others as they are.
C15_JoinAfterAllSettled ==
    [][/\ (spc = "awaiting"
            /\ (spc' # spc \/ generatedImages' # generatedImages
                   \/ singleError' # singleError \/ isLoading' # isLoading))
           => \A k \in DOMAIN variations : Settled(variations[k])
       /\ (spc = "awaiting" /\ spc' = "awaiting")
           => \A j, k \in DOMAIN variations :
                 (j # k /\ variations'[k] # variations[k])
                     => variations'[j] = variations[j]]_vars

C15_Witness ==
    /\ spc = "awaiting"
    /\ Len(variations) = 4
    /\ variations[2].st = "rejected"
    /\ variations[4].st = "fulfilled"
    /\ InFlight(variations[1])
    /\ InFlight(variations[3])
    /\ generatedImages = capturedImages
    /\ isLoading

\* C16 as stated: no image of the list is a placeholder.
C16_NoPlaceholderAdded ==
    \A j \in 1..Len(generatedImages) : generatedImages[j].src.kind = "image"

\* -------------------------------------------------- claims on failed rows

\* A row that the validation of the loop body rejects: no prompt, or a width
\* or height that is missing, not a number or not positive.
FailsValidation(row) ==
    LET w == ParseInt(OrCell(row.lebar, row.width))
        h == ParseInt(OrCell(row.tinggi, row.height))
    IN  \/ (row.prompt_spesifik = "" /\ row.specific_prompt = "" /\ row.prompt = "")
        \/ OrCell(row.lebar, row.width) = <<>>
        \/ OrCell(row.tinggi, row.height) = <<>>
        \/ w.isNaN \/ h.isNaN
        \/ (~w.isNaN /\ w.n < 1)
        \/ (~h.isNaN /\ h.n < 1)

\* C21 as stated: every placeholder of a job has a strictly positive width
\* and a strictly positive height.
C21_PlaceholderPositive ==
    \A k \in 1..Len(batchProgress.generatedFiles) :
        IsPlaceholder(batchProgress.generatedFiles[k])
            => /\ batchProgress.generatedFiles[k].data.width > 0
               /\ batchProgress.generatedFiles[k].data.height > 0

\* C22: the step that begins a row failing validation calls no backend,
\* counts one failure and awaits a placeholder; the step that ends the row
\* appends that placeholder under the row's filename, calls no backend
\* either, and goes on to the inter-item delay when a row is left.
C22_InvalidRowSkipsBackend ==
    [][/\ ( /\ pc \in {"reading", "inter_delay"}
            /\ pc' \in {"await_generate", "await_placeholder"}
            /\ FailsValidation(rows'[i' + 1]) )
           => /\ genCalls' = genCalls
              /\ call'.requests = 0
              /\ failures' = failures + 1
              /\ pc' = "await_placeholder"
              /\ call'.value.kind = "placeholder"
       /\ ( /\ pc = "await_placeholder"
            /\ pc' # pc
            /\ FailsValidation(rows[i + 1]) )
           => /\ genCalls' = genCalls
              /\ failures' = failures
              /\ batchProgress'.generatedFiles =
                     Append(batchProgress.generatedFiles,
                            [filename |-> ExpectedFileName(rows[i + 1], i),
                             data |-> call.value])
              /\ (i < Len(rows) - 1
                     => pc' = "inter_delay" /\ batchProgress'.status = "processing")
      ]_vars

C22_Witness ==
    /\ JobFinished
    /\ Len(rows) = 2
    /\ FailsValidation(rows[1])
    /\ ~FailsValidation(rows[2])
    /\ genCalls = 1
    /\ failures = 1
    /\ IsPlaceholder(batchProgress.generatedFiles[1])
    /\ IsRealImage(batchProgress.generatedFiles[2])

\* What an engine says when it has no credential.
NotConfiguredReasons ==
    { "Gemini API key is not configured. Please set it in the settings panel.",
      "dall-e-3 generation failed: OpenAI API key is not configured. Please set it in the settings panel.",
      "deepseek-image-v1 generation failed: OpenAI API key is not configured. Please set it in the settings panel." }

\* C23: a call of an engine that takes a credential, made with the empty
\* credential, is rejected at once with a "not configured" error and has
\* sent no request.
C23_EmptyCredentialFailsFast ==
    ( /\ pc = "await_generate"
      /\ call.engine \in {"gemini", "dalle3", "deepseek"}
      /\ apiKey = "" )
        => /\ call.st = "rejected"
           /\ call.requests = 0
           /\ call.reason \in NotConfiguredReasons

C23_Witness ==
    /\ pc = "await_generate"
    /\ call.engine = "deepseek"
    /\ apiKey = ""
    /\ call.st = "rejected"
    /\ call.requests = 0
    /\ call.reason \in NotConfiguredReasons

\* ------------------------------------------------ claims on the helpers

\* The supported ratios in their enumeration order, as fractions a / b.
Candidates ==
    << [key |-> "1:1", a |-> 1, b |-> 1], [key |-> "4:3", a |-> 4, b |-> 3],
       [key |-> "3:4", a |-> 3, b |-> 4], [key |-> "16:9", a |-> 16, b |-> 9],
       [key |-> "9:16", a |-> 9, b |-> 16] >>

\* |c.a / c.b - w / h| < |d.a / d.b - w / h| for h # 0, in exact arithmetic:
\* both sides multiplied by c.b * d.b * |h|.
StrictlyCloser(c, d, w, h) ==
    (IF c.a * h < c.b * w THEN c.b * w - c.a * h ELSE c.a * h - c.b * w) * d.b
        < (IF d.a * h < d.b * w THEN d.b * w - d.a * h ELSE d.a * h - d.b * w) * c.b

\* getClosestAspectRatio has returned for the arguments of the evaluation.
RatioReturned == evaluation.fn = "getClosestAspectRatio" /\ evaluation.calls = 1

\* C24 as stated: 1:1 for height 0; otherwise the candidate at the least
\* distance from width / height, the earliest of them when several are.
C24_EarliestClosest ==
    RatioReturned =>
        IF evaluation.height = 0 THEN evaluation.ratio = "1:1"
        ELSE \E k \in 1..Len(Candidates) :
                /\ Candidates[k].key = evaluation.ratio
                /\ \A j \in 1..Len(Candidates) :
                      ~StrictlyCloser(Candidates[j], Candidates[k],
                                      evaluation.width, evaluation.height)
                /\ \A j \in 1..(k - 1) :
                      StrictlyCloser(Candidates[k], Candidates[j],
                                     evaluation.width, evaluation.height)

\* C24: 1:1 for height 0; otherwise a candidate at the least distance from
\* width / height.  Of two candidates at the same distance the one the
\* rounded differences favour is returned: 4:3 (not 1:1) for 7:6, 16:9 (not
\* 4:3) for 14:9, and the earlier 1:1 (not 3:4) for 7:8.
C24_ClosestRatio ==
    RatioReturned =>
        IF evaluation.height = 0 THEN evaluation.ratio = "1:1"
        ELSE /\ \E k \in 1..Len(Candidates) :
                   /\ Candidates[k].key = evaluation.ratio
                   /\ \A j \in 1..Len(Candidates) :
                         ~StrictlyCloser(Candidates[j], Candidates[k],
                                         evaluation.width, evaluation.height)
             /\ 6 * evaluation.width = 7 * evaluation.height
                   => evaluation.ratio = "4:3"
             /\ 9 * evaluation.width = 14 * evaluation.height
                   => evaluation.ratio = "16:9"
             /\ 8 * evaluation.width = 7 * evaluation.height
                   => evaluation.ratio = "1:1"

C24_Witness ==
    /\ RatioReturned
    /\ evaluation.width = 7
    /\ evaluation.height = 6
    /\ evaluation.ratio = "4:3"

\* hash * 31 + char kept to its low 32 bits, on the bit pattern of hash in
\* 16-bit halves.
Fold31(v, char) ==
    [hi |-> (v.hi * 31 + (v.lo * 31 + char) \div 65536) % 65536,
     lo |-> (v.lo * 31 + char) % 65536]

\* The fold over the whole string, starting from 0.
RECURSIVE FoldHash(_)
FoldHash(str) ==
    IF str = <<>> THEN [hi |-> 0, lo |-> 0]
    ELSE Fold31(FoldHash(SubSeq(str, 1, Len(str) - 1)), str[Len(str)])

\* The bit pattern read as a signed 32-bit integer is negative.
ReadsNegative(v) == v.hi >= 32768

\* The absolute value of the bit pattern read as a signed 32-bit integer.
AbsSigned(v) ==
    IF ~ReadsNegative(v) THEN [neg |-> FALSE, hi |-> v.hi, lo |-> v.lo]
    ELSE [neg |-> FALSE,
          hi |-> 65535 - v.hi + (IF v.lo = 0 THEN 1 ELSE 0),
          lo |-> (65536 - v.lo) % 65536]

\* C25: the seed derived from a prompt is the absolute value of the fold
\* hash = hash * 31 + charCode, kept to 32 bits with signed wrap-around and
\* started from 0; it is not negative, and deriving it again gives the same
\* number.
C25_SeedIsAbsOfFold ==
    [][/\ (evaluation'.fn = "stringToSeed" /\ evaluation'.calls >= 1)
           => /\ evaluation'.seed = AbsSigned(FoldHash(evaluation'.str))
              /\ ~evaluation'.seed.neg
       /\ (evaluation.fn = "stringToSeed" /\ evaluation.calls >= 1)
           => evaluation'.seed = evaluation.seed
      ]_vars

C25_Witness ==
    /\ evaluation.fn = "stringToSeed"
    /\ evaluation.calls = 2
    /\ Len(evaluation.str) = 5
    /\ ReadsNegative(FoldHash(evaluation.str))
    /\ evaluation.seed = AbsSigned(FoldHash(evaluation.str))

\* ------------------------------------------ claims on jobs and retries

\* C26: a job that has not ended keeps the status processing, which keeps
\* the upload disabled, and no step taken while a job runs starts a job:
\* the state has one writer at a time.
C26_OneJobAtATime ==
    [][/\ pc # "idle" => (batchProgress.status = "processing" /\ ~UploadEnabled)
       /\ pc # "idle" => pc' # "reading"
       /\ pc' = "reading" => (pc = "idle" /\ batchProgress.status # "processing")
      ]_vars

C26_Witness ==
    /\ pc = "inter_delay"
    /\ batchProgress.status = "processing"
    /\ Len(batchProgress.generatedFiles) = 1
    /\ ~UploadEnabled

\* C27: the observer is invoked in the step that starts a backoff sleep and
\* in no other, once, with the number of the attempt that has just failed
\* and the delay of that sleep, and only when fewer than 3 attempts have
\* been made; the sleep is followed by the next attempt.
C27_ObserverOncePerRetry ==
    [][/\ (call'.st = "backoff" /\ call.st # "backoff")
           => /\ call.attempt < 3
              /\ AttemptFailed(call'.log[Len(call'.log)])
              /\ Len(call'.log) = call.attempt
              /\ Len(call'.sleeps) = Len(call.sleeps) + 1
              /\ call'.notified =
                     Append(call.notified,
                            <<call.attempt, call'.sleeps[Len(call'.sleeps)]>>)
       /\ ~(call'.st = "backoff" /\ call.st # "backoff")
           => call'.notified \in {call.notified, <<>>}
       /\ (call.st = "backoff" /\ call' # call)
           => (call'.st = "fetching" /\ call'.attempt = call.attempt + 1)
      ]_vars

C27_Witness ==
    /\ call.engine = "public"
    /\ Settled(call)
    /\ Len(call.log) = 3
    /\ call.notified = <<<<1, 2000>>, <<2, 4000>>>>
    /\ call.sleeps = <<2000, 4000>>

\* A response the retry loop answers with another attempt: a transport
\* error, a 5xx status, a 429 status, or a 2xx response that is no image.
RetriedOutcome(r) ==
    \/ r = NetworkError
    \/ r.status >= 500
    \/ r.status = 429
    \/ (r.status >= 200 /\ r.status <= 299
           /\ r.blobType \notin {"image/jpeg", "image/png"})

\* A response with a status outside 2xx, below 500 and other than 429.
EndingStatus(r) ==
    /\ r # NetworkError
    /\ r.status < 500
    /\ ~(r.status >= 200 /\ r.status <= 299)
    /\ r.status # 429

\* C28 as stated: after a transport error, a status outside 2xx or a 2xx
\* response that is no image, another attempt follows while fewer than 3
\* have been made, unless the status is a 4xx other than 429.
C28_AllButClientErrorsRetried ==
    ( /\ call.engine = "public"
      /\ call.log # <<>>
      /\ Len(call.log) < 3
      /\ AttemptFailed(call.log[Len(call.log)])
      /\ ~TerminalStatus(call.log[Len(call.log)]) )
        => ~Settled(call)

\* C28: after a transport error, a 5xx or 429 status or a 2xx response that
\* is no image, another attempt follows while fewer than 3 have been made,
\* and none after the third; any other status outside 2xx (one below 500
\* that is not 429: a 3xx as well as a 4xx) ends the attempts at once.
C28_RetriedAndEndingOutcomes ==
    ( /\ call.engine = "public"
      /\ call.log # <<>> )
        => /\ (RetriedOutcome(call.log[Len(call.log)]) /\ Len(call.log) < 3)
                 => (~Settled(call) /\ call.st \in {"backoff", "fetching"})
           /\ (RetriedOutcome(call.log[Len(call.log)]) /\ Len(call.log) = 3)
                 => (Settled(call) /\ call.requests = 3)
           /\ EndingStatus(call.log[Len(call.log)])
                 => (Settled(call) /\ call.requests = Len(call.log))

C28_Witness ==
    /\ call.engine = "public"
    /\ call.log = <<Resp(200, "text/html", ""), NetworkError, Resp(300, "", "")>>
    /\ Settled(call)
    /\ call.requests = 3

\* C29: the step that appends the entry of a row sleeps the delay of 2000
\* when a row is left, whether the entry is an image or a placeholder, and
\* ends the job without a delay when none is; no other step sleeps it.  So
\* the delays slept number the entries appended, up to N - 1.
C29_DelayBetweenRowsOnly ==
    [][/\ Len(batchProgress'.generatedFiles) = Len(batchProgress.generatedFiles) + 1
           => IF Len(batchProgress'.generatedFiles) < Len(rows)
              THEN /\ delays' = Append(delays, 2000)
                   /\ pc' = "inter_delay"
                   /\ batchProgress'.status = "processing"
              ELSE /\ delays' = delays
                   /\ pc' = "idle"
                   /\ batchProgress'.status \in {"done", "error"}
       /\ Len(batchProgress'.generatedFiles) # Len(batchProgress.generatedFiles) + 1
           => delays' \in {delays, <<>>}
       /\ rows' # <<>>
           => Len(delays') =
                 IF Len(batchProgress'.generatedFiles) < Len(rows')
                 THEN Len(batchProgress'.generatedFiles)
                 ELSE Len(rows') - 1
      ]_vars

C29_Witness ==
    /\ JobFinished
    /\ Len(rows) = 2
    /\ delays = <<2000>>
    /\ IsPlaceholder(batchProgress.generatedFiles[1])
    /\ IsRealImage(batchProgress.generatedFiles[2])

\* The segments joined with ", ", an empty segment left out.
RECURSIVE CommaJoined(_)
CommaJoined(segments) ==
    IF segments = <<>> THEN ""
    ELSE IF Head(segments) = "" THEN CommaJoined(Tail(segments))
    ELSE IF CommaJoined(Tail(segments)) = "" THEN Head(segments)
    ELSE Head(segments) \o ", " \o CommaJoined(Tail(segments))

\* The first of the cells that is not empty, "" when all are.
RECURSIVE FirstFilled(_)
FirstFilled(cells) ==
    IF cells = <<>> THEN ""
    ELSE IF Head(cells) # "" THEN Head(cells)
    ELSE FirstFilled(Tail(cells))

\* C30: the prompt handed to the engine for a valid row is the comma-joined
\* sequence of master style, asset-type label, character-part label, the
\* row's prompt, "<width>x<height>px", "facing <direction>", "transparent
\* background" and "centered", the absent ones left out.
C30_ComposedPrompt ==
    pc = "await_generate" =>
        call.prompt =
            CommaJoined(<< masterStyle,
                           FirstFilled(<<rows[i + 1].tipe_aset, rows[i + 1].asset_type>>),
                           FirstFilled(<<rows[i + 1].bagian_karakter,
                                         rows[i + 1].character_part>>),
                           FirstFilled(<<rows[i + 1].prompt_spesifik,
                                         rows[i + 1].specific_prompt,
                                         rows[i + 1].prompt>>),
                           ToString(call.width) \o "x" \o ToString(call.height) \o "px",
                           IF FirstFilled(<<rows[i + 1].arah_hadap,
                                            rows[i + 1].facing_direction>>) = ""
                           THEN ""
                           ELSE "facing " \o FirstFilled(<<rows[i + 1].arah_hadap,
                                                           rows[i + 1].facing_direction>>),
                           "transparent background", "centered" >>)

C30_Witness ==
    /\ pc = "await_generate"
    /\ masterStyle = ""
    /\ call.prompt = "Prop, a tree, 32x48px, facing kiri, transparent background, centered"
    /\ call.width = 32
    /\ call.height = 48

\* ------------------------------------------- claims on the job's summary

\* The rows of the job whose entry is a placeholder: the rows that failed.
FailedRows ==
    { k \in 1..Len(batchProgress.generatedFiles) :
          IsPlaceholder(batchProgress.generatedFiles[k]) }

\* The messages a failure of the row with index idx can carry.
FailureReasons(idx) ==
    { "Row " \o ToString(idx + 2)
          \o ": Invalid or missing data. Ensure prompt, width, and height are valid.",
      "Error reading image blob.",
      "Invalid Gemini API key. Please check your key in the settings.",
      "Failed to generate image. The API returned an unexpected error." }
    \cup NotConfiguredReasons \cup QuotaOrTransientReasons
    \cup { m \o " generation failed: " \o e :
              m \in {"dall-e-3", "deepseek-image-v1"},
              e \in {"Invalid API key (401). Please check your key.",
                     "Billing issue (429): Please check your credit balance or plan."} }
    \cup { m \o " generation failed: No image data received from " \o m \o "." :
              m \in {"dall-e-3", "deepseek-image-v1"} }

\* C31 as stated: the summary of a job that ended in error gives the number
\* of failed rows out of the total and the message of the failed row with
\* the lowest index.
C31_SummaryOfFailedRows ==
    (JobFinished /\ batchProgress.status = "error")
        => /\ FailedRows # {}
           /\ \E k \in FailedRows : \E m \in FailureReasons(k - 1) :
                 /\ \A j \in FailedRows : k <= j
                 /\ batchProgress.error =
                        ToString(Cardinality(FailedRows)) \o " of "
                            \o ToString(Len(rows)) \o " assets failed. First error: "
                            \o "Error on " \o batchProgress.generatedFiles[k].filename
                            \o ": " \o m

\* A 2xx response of the public endpoint without a usable image: no image
\* content type, or an image that could not be read.
NoPayload(r) ==
    /\ r.status >= 200 /\ r.status <= 299
    /\ (r.blobType \notin {"image/jpeg", "image/png"} \/ r.read # "ok")

\* C32 as stated: a call whose backend answered with success but without a
\* usable image has made that one attempt only and is rejected; no engine
\* asks again, and none resolves without an image.
C32_NoOutputIsTerminal ==
    /\ ( /\ call.engine = "public"
         /\ \E k \in 1..Len(call.log) : NoPayload(call.log[k]) )
           => /\ NoPayload(call.log[Len(call.log)])
              /\ Len(call.log) = 1
              /\ call.requests = 1
              /\ call.st = "rejected"
    /\ ( /\ call.engine \in {"gemini", "dalle3", "deepseek"}
         /\ Settled(call) )
           => /\ call.requests <= 1
              /\ call.st = "fulfilled" => call.value.kind = "image"

\* C34 as stated: every retry notification of a batch row sets the label to
\* "Rate limit hit. Retrying <filename> in <delay/1000>s... (Attempt <k>)"
\* for the row's filename and leaves current, total, status and
\* generatedFiles as they are.
C34_RetryLabel ==
    [][(pc = "await_generate" /\ Len(call'.notified) = Len(call.notified) + 1)
          => /\ Text(batchProgress'.currentFileName) =
                    "Rate limit hit. Retrying " \o ExpectedFileName(rows[i + 1], i)
                        \o " in "
                        \o ToString(call'.notified[Len(call'.notified)][2] \div 1000)
                        \o "s... (Attempt "
                        \o ToString(call'.notified[Len(call'.notified)][1]) \o ")"
             /\ batchProgress'.current = batchProgress.current
             /\ batchProgress'.total = batchProgress.total
             /\ batchProgress'.status = batchProgress.status
             /\ batchProgress'.generatedFiles = batchProgress.generatedFiles
      ]_vars

\* C37: the status changes only from idle to processing, from processing to
\* done or to error, and from done or error to processing; it never becomes
\* idle again, and the step that makes it processing starts the job with no
\* generated files.
C37_StatusTransitions ==
    [][/\ batchProgress'.status # batchProgress.status
           => <<batchProgress.status, batchProgress'.status>> \in
                  { <<"idle", "processing">>, <<"processing", "done">>,
                    <<"processing", "error">>, <<"done", "processing">>,
                    <<"error", "processing">> }
       /\ batchProgress.status # "idle" => batchProgress'.status # "idle"
       /\ (batchProgress'.status = "processing" /\ batchProgress.status # "processing")
           => batchProgress'.generatedFiles = <<>>
      ]_vars

C37_Witness ==
    /\ pc = "await_generate"
    /\ batchProgress.status = "processing"
    /\ batchProgress.generatedFiles = <<>>
    /\ engine = "deepseek"
    /\ call.st = "pending"

\* ------------------------------------------- claims on the whole panel

\* C33: a step of a single-shot run, of a user upload or of an archive
\* download leaves the whole batch state as it is: total, current, status,
\* generatedFiles, currentFileName and error, also while a job is running.
C33_OnlyTheJobWritesProgress ==
    [][(singleVars' # singleVars \/ panelVars' # panelVars)
           => batchProgress' = batchProgress]_vars

\* A job is at its second row while a single shot awaits its request, an
\* upload is being read and an archive is being generated, after an earlier
\* upload or single shot has already written the list of images.
C33_Witness ==
    /\ batchProgress.status = "processing"
    /\ Len(batchProgress.generatedFiles) = 1
    /\ pc = "await_generate"
    /\ spc = "awaiting"
    /\ uploads # <<>>
    /\ download.st = "generating"
    /\ generatedImages # <<>>

\* C35 as stated: no step takes an image out of the list of available
\* images, so that what an upload and a single shot add while the other is
\* in flight is in the list when both are over.
C35_NoImageLost ==
    [][\A k \in DOMAIN generatedImages :
           \E j \in DOMAIN generatedImages' :
               generatedImages'[j] = generatedImages[k]]_vars

\* C36 as stated: the archive has one entry for every element of the
\* generatedFiles it was built from.
C36_OneEntryPerFile ==
    download.st # "none" => Len(download.entries) = download.files

====
